---- MODULE Spec2Model ----
(***************************************************************************)
(* A model of BabyAgent/vision.py: the video_GPT pipeline (acquire the     *)
(* video, sample frames, transcribe the audio, build the multimodal        *)
(* request and infer, clean up) together with the part of the filesystem   *)
(* it creates and deletes; and of the web handler index of                 *)
(* BabyAgent/app.py.                                                       *)
(*                                                                         *)
(* Spec is the pipeline over sequential invocations, with extract_frames   *)
(* as one step.  SpecFrames runs extract_frames statement by statement on  *)
(* a set of clips and windows, up to the inference request.  SpecClassify  *)
(* runs the classification of prepare_video_input on a set of source       *)
(* strings, SpecCues the cue detection on a set of transcripts.            *)
(* SpecFramesFair is SpecFrames with the sampling loop kept running,       *)
(* SpecThreads interleaves concurrent invocations of video_GPT over the    *)
(* shared scratch paths, SpecWeb runs the web handler on a set of          *)
(* requests.                                                               *)
(*                                                                         *)
(* Paths are records [kind, id]; strings that the code searches            *)
(* (transcripts) are sequences of one-character strings.  External         *)
(* collaborators (downloaders, OpenCV, moviepy, the OpenAI client, the     *)
(* filesystem's delete operations) are nondeterministic: each call picks   *)
(* one of the outcomes the collaborator can produce.                       *)
(***************************************************************************)
EXTENDS Integers, Sequences, FiniteSets, TLC

\* ------------------------------------------------------------------ bounds
\* Number of sequential invocations of video_GPT that are explored.
MaxRuns == 2
\* Largest number of frames one run of the sampler writes.
MaxSampled == 1
\* Number of frames of the short clips given to the sampler.
ShortClipFrames == 40
\* Number of frames of the ten-second clip at 30 frames per second.
TenSecondClipFrames == 300
\* Number of frames of the long recording (more than ninety-two hours at 30
\* frames per second), and the start time, in seconds, of windows near its end.
LongClipFrames == 10000030
LongClipStart == 333333
\* Number of invocations of video_GPT that run concurrently.
MaxThreads == 2
\* Number of requests the web handler receives.
MaxRequests == 2

\* --------------------------------------------------------------- variables
VARIABLES
    run,              \* number of the current invocation of video_GPT (0: none yet)
    pc,               \* position of the current invocation
    video_source,     \* video_GPT's video_path argument
    local_video_path, \* first component returned by prepare_video_input
    temp_dir,         \* second component: the owned temp directory or None
    cleanup_targets,  \* video_GPT's cleanup_targets list
    exc,              \* exception travelling through video_GPT's try block
    result,           \* what the caller of video_GPT observes
    YoutubeDL,        \* module global: FALSE when the yt_dlp import failed
    has_responses,    \* whether client has the attribute "responses"
    tempDirs,         \* filesystem: ids of the mkdtemp directories that exist
    frameDir,         \* filesystem: whether FRAME_FOLDER exists
    frameFiles,       \* filesystem: the entries of FRAME_FOLDER
    audioFile,        \* filesystem: 0, or the run that wrote OUTPUT_AUDIO_PATH
    created,          \* history: paths this run created
    delFailed,        \* history: paths whose deletion failed during this run
    cleaned,          \* history: paths cleanup_paths has processed in this run
    clip,             \* history: what opening the clip showed in this run
    trCalls,          \* history: transcription calls of this run, in order
    transcript,       \* extract_audio_and_transcribe's transcript
    baby_cues,        \* extract_audio_and_transcribe's baby_cues
    base64frames,     \* video_GPT's base64frames list
    inferCalls,       \* history: inference requests of this run, in order
    resp,             \* the primary-shape response being parsed
    printed,          \* assessments printed by analyze_frames_with_responses
    videoFiles,       \* filesystem: the video files this invocation can name
    cap,              \* history: what opening the capture showed in this run
    video,            \* the video behind local_video_path, as OpenCV reports it
    interval_sec,     \* extract_frames' interval_sec argument
    start_sec,        \* video_GPT's start_sec argument
    end_sec,          \* video_GPT's end_sec argument
    safe_start,       \* extract_frames' safe_start
    safe_end,         \* extract_frames' safe_end
    warned,           \* history: the invalid-window warning was printed
    fps,              \* extract_frames' fps
    frame_skip,       \* extract_frames' frame_skip
    start_frame_idx,  \* extract_frames' start_frame_idx
    frame_idx,        \* extract_frames' frame_idx
    cap_pos,          \* the capture's read position when the loop starts
    cleanupLog,       \* history: paths cleanup_paths printed "Failed to remove" for
    threads,          \* concurrent invocations of video_GPT: each one's locals
    requests,         \* number of requests the web handler has received
    wpc,              \* position of the web handler index
    request,          \* the request: method, form field video_url, file video_file
    temp_path,        \* index's temp_path
    analysis_source,  \* index's source
    error,            \* index's error
    analysis_output,  \* index's analysis_output
    tmpFiles,         \* filesystem: the NamedTemporaryFile files that exist
    invoked,          \* history: sources run_analysis was called with, this request
    response          \* what the client of index receives

vars == << run, pc, video_source, local_video_path, temp_dir, cleanup_targets,
           exc, result, YoutubeDL, has_responses, tempDirs, frameDir,
           frameFiles, audioFile, created, delFailed, cleaned, clip,
           trCalls, transcript, baby_cues, base64frames, inferCalls, resp,
           printed, videoFiles, cap, video, interval_sec, start_sec, end_sec,
           safe_start, safe_end, warned, fps, frame_skip, start_frame_idx,
           frame_idx, cap_pos, cleanupLog, threads, requests, wpc, request,
           temp_path, analysis_source, error, analysis_output, tmpFiles,
           invoked, response >>

\* ------------------------------------------------------------------- paths
None == [kind |-> "none", id |-> 0]
FRAME_FOLDER == [kind |-> "framedir", id |-> 0]
OUTPUT_AUDIO_PATH == [kind |-> "audio", id |-> 0]
\* The directory the n-th invocation's tempfile.mkdtemp returns (fresh each time).
TempDir(n) == [kind |-> "tempdir", id |-> n]
\* The downloaded file inside TempDir(n).
DownloadedFile(n) == [kind |-> "download", id |-> n]
\* The file youtube-dl's merge step writes in TempDir(n): the downloaded
\* file's name with the extension replaced by ".mp4".
MergedFile(n) == [kind |-> "merged", id |-> n]
\* LocalFile as it would be if the scheme were stripped from the string.
LocalFile_SchemeStripped(source) ==
    [kind |-> "local", id |-> 0,
     source |-> [scheme |-> "", netloc |-> source.netloc, parses |-> source.parses]]

\* The path a caller-supplied source string names, when it is used as a path.
LocalFile(source) == [kind |-> "local", id |-> 0, source |-> source]

\* os.path.isdir / os.path.exists on the modelled part of the filesystem.
IsDir(p) ==
    \/ p.kind = "tempdir" /\ p.id \in tempDirs
    \/ p.kind = "framedir" /\ frameDir

Exists(p) ==
    \/ IsDir(p)
    \/ p.kind = "audio" /\ audioFile # 0

\* os.path.isfile on a video file: a downloaded file exists as long as the
\* temp directory that holds it.
VideoExists(p) ==
    /\ p \in videoFiles
    /\ p.kind = "local" \/ p.id \in tempDirs

\* ------------------------------------------------------------------ errors
NoError == "none"

\* --------------------------------------------------------- source strings
\* A source string is represented by what urlparse does with it: parses is
\* FALSE when urlparse raises ValueError; scheme is the scheme it extracts
\* (lower-cased by urlparse); netloc is the network location as written, a
\* sequence of one-character strings.
Src(scheme, netloc, parses) ==
    [scheme |-> scheme, netloc |-> netloc, parses |-> parses]

NoHost == <<>>
HostWwwYoutube == <<"w","w","w",".","y","o","u","t","u","b","e",".","c","o","m">>
HostYoutuBe == <<"y","o","u","t","u",".","b","e">>
HostExample == <<"e","x",".","c","o","m">>
HostUpperYoutube == <<"Y","o","u","T","u","b","e",".","c","o","m">>
HostUpperYoutuBe == <<"m",".","Y","O","U","T","U",".","B","E">>
HostYoutubeOrg == <<"y","o","u","t","u","b","e",".","o","r","g">>
HostNotYoutube == <<"n","o","y","o","u","t","u","b","e",".","c","o","m">>

\* The sources video_GPT is invoked with.
Sources ==
    { Src("",      NoHost,         TRUE),
      Src("https", HostWwwYoutube, TRUE),
      Src("http",  HostYoutuBe,    TRUE),
      Src("https", HostExample,    TRUE),
      Src("ftp",   HostExample,    TRUE) }

\* str.lower() on the characters of the modelled hosts.
Lower(c) ==
    CASE c = "Y" -> "y" [] c = "O" -> "o" [] c = "U" -> "u"
      [] c = "T" -> "t" [] c = "B" -> "b" [] c = "E" -> "e"
      [] OTHER -> c

LowerSeq(s) == [ i \in 1..Len(s) |-> Lower(s[i]) ]

\* Python's "needle in hay" on strings.
Contains(needle, hay) ==
    \E i \in 1..(Len(hay) - Len(needle) + 1) :
        SubSeq(hay, i, i + Len(needle) - 1) = needle

YOUTUBE_COM == <<"y","o","u","t","u","b","e",".","c","o","m">>
YOUTU_BE == <<"y","o","u","t","u",".","b","e">>

\* is_url as it would be if every string with a scheme counted as a URL.
is_url_AnyScheme(source) == source.parses /\ source.scheme # ""

is_url(source) == source.parses /\ source.scheme \in {"http", "https"}

is_youtube_url(source) ==
    LET host == LowerSeq(source.netloc)
    IN  Contains(YOUTUBE_COM, host) \/ Contains(YOUTU_BE, host)

\* ------------------------------------------------------------- transcripts
\* Text is a sequence of one-character strings.
BABY_CRY_CUES ==
    << <<"N","E","H">>, <<"O","W","H">>, <<"H","E","H">>,
       <<"E","A","I","R">>, <<"E","H">> >>

LowerLetters == {"a", "e", "h", "i", "n", "o", "r", "w"}
UpperLetters == {"A", "E", "H", "I", "N", "O", "R", "W"}

\* Case folding of re.IGNORECASE on the letters of the model's alphabet.
Upper(c) ==
    CASE c = "a" -> "A" [] c = "e" -> "E" [] c = "h" -> "H" [] c = "i" -> "I"
      [] c = "n" -> "N" [] c = "o" -> "O" [] c = "r" -> "R" [] c = "w" -> "W"
      [] OTHER -> c

\* The characters the regex class \w matches.
IsWordChar(c) == c \in LowerLetters \cup UpperLetters \cup {"_", "1"}

\* \b at the gap before position i of t (i = Len(t) + 1: the end of the text).
WordBoundary(t, i) ==
    LET before == i > 1 /\ IsWordChar(t[i - 1])
        after  == i <= Len(t) /\ IsWordChar(t[i])
    IN  before # after

\* CueSearch as it would be with the pattern lacking its two \b.
CueSearch_Substring(cue, t) ==
    \E i \in 1..(Len(t) - Len(cue) + 1) :
        \A k \in 1..Len(cue) : Upper(t[i + k - 1]) = Upper(cue[k])

\* re.search(rf"\b{cue}\b", transcript, flags=re.IGNORECASE) finds a match.
CueSearch(cue, t) ==
    \E i \in 1..(Len(t) - Len(cue) + 1) :
        /\ WordBoundary(t, i)
        /\ \A k \in 1..Len(cue) : Upper(t[i + k - 1]) = Upper(cue[k])
        /\ WordBoundary(t, i + Len(cue))

detect_baby_sounds(t) ==
    SelectSeq(BABY_CRY_CUES, LAMBDA cue : CueSearch(cue, t))

\* "There is no audio for this video." (abridged to the model's alphabet).
NO_AUDIO_TEXT == <<"n","o"," ","a","i","r">>

\* Texts the transcription service returns in the pipeline model.
ServiceTexts ==
    { <<"n","e","h"," ","n","e","h"," ","H","E","H">>,
      <<"e","h","_","1">> }

\* --------------------------------------------------- primary-shape responses
\* A response of client.responses.create.  A field that the object lacks is
\* marked by a Kind of "absent" (attributes) or by the text "ABSENT" (dict
\* keys); None by a Kind of "none" or by the text "NONE".
Entry(isDict, type, text) == [isDict |-> isDict, type |-> type, text |-> text]
Block(type, contentKind, content) ==
    [type |-> type, contentKind |-> contentKind, content |-> content]
Response(id, hasOT, ot, outputKind, output) ==
    [id |-> id, hasOutputText |-> hasOT, output_text |-> ot,
     outputKind |-> outputKind, output |-> output]

NoResponse == Response("none", FALSE, "NONE", "absent", <<>>)

Responses ==
    { Response("r1", TRUE, "A1", "list",
               << Block("message", "list", << Entry(TRUE, "output_text", "B1") >>) >>),
      Response("r2", TRUE, "", "list",
               << Block("reasoning", "absent", <<>>),
                  Block("message", "list",
                        << Entry(TRUE, "refusal", "X2"),
                           Entry(TRUE, "output_text", "A2") >>) >>),
      Response("r3", FALSE, "NONE", "absent", <<>>),
      Response("r4", TRUE, "NONE", "none", <<>>),
      Response("r5", TRUE, "", "list",
               << Block("ABSENT", "list", << Entry(TRUE, "output_text", "X5") >>),
                  Block("message", "list", << Entry(TRUE, "ABSENT", "X5") >>) >>),
      Response("r6", TRUE, "", "list", << Block("message", "absent", <<>>) >>),
      Response("r7", TRUE, "", "list", << Block("message", "none", <<>>) >>),
      Response("r8", TRUE, "", "list",
               << Block("message", "list", << Entry(FALSE, "output_text", "A8") >>) >>),
      Response("r9", TRUE, "", "list",
               << Block("message", "list", << Entry(TRUE, "output_text", "ABSENT") >>) >>),
      Response("r10", TRUE, "", "list",
               << Block("message", "list", << Entry(TRUE, "refusal", "X10") >>),
                  Block("message", "list", << Entry(TRUE, "output_text", "A10") >>) >>) }

\* What print() emits: a text, or the representation of a response object.
Text(s) == [kind |-> "text", val |-> s]
Repr(r) == [kind |-> "repr", val |-> r.id]

Printed(out) == [outcome |-> "print", out |-> out]
Raised(e) == [outcome |-> e, out |-> Text("")]

\* Python truth value of resp.output_text.
Truthy(s) == s \notin {"NONE", ""}

\* "for c in block.content": the first entry decides, else the next one.
RECURSIVE ScanContent(_, _)
ScanContent(content, j) ==
    IF j > Len(content) THEN [outcome |-> "next", out |-> Text("")]
    ELSE IF ~content[j].isDict THEN Raised("AttributeError")
    ELSE IF content[j].type = "output_text"
         THEN Printed(Text(IF content[j].text = "ABSENT" THEN "" ELSE content[j].text))
    ELSE ScanContent(content, j + 1)

\* "for block in getattr(resp, 'output', []) or []", then the last resort.
RECURSIVE ScanBlocks(_, _, _)
ScanBlocks(r, blocks, i) ==
    IF i > Len(blocks) THEN Printed(Repr(r))
    ELSE IF blocks[i].type # "message" THEN ScanBlocks(r, blocks, i + 1)
    ELSE IF blocks[i].contentKind = "absent" THEN Raised("AttributeError")
    ELSE IF blocks[i].contentKind = "none" THEN Raised("TypeError")
    ELSE LET c == ScanContent(blocks[i].content, 1)
         IN  IF c.outcome = "next" THEN ScanBlocks(r, blocks, i + 1) ELSE c

\* The text extraction of analyze_frames_with_responses.
ExtractText(r) ==
    IF r.hasOutputText /\ Truthy(r.output_text)
    THEN Printed(Text(r.output_text))
    ELSE ScanBlocks(r, IF r.outputKind = "list" THEN r.output ELSE <<>>, 1)

\* ----------------------------------------------------------- frame files
\* An entry of FRAME_FOLDER: the native frame index in its name and the run
\* that wrote it (0: it was there before the first run).
FrameFile(idx, by) == [idx |-> idx, by |-> by]

StaleFrames == { FrameFile(0, 0) }

\* The decimal digits of a natural number, most significant first.
RECURSIVE DecimalDigits(_)
DecimalDigits(n) ==
    IF n < 10 THEN <<n>> ELSE Append(DecimalDigits(n \div 10), n % 10)

\* The width of the format specification "07d".
FRAME_NAME_WIDTH == 7

\* f"{current_frame:07d}": the digits, left-padded with zeros to the width;
\* a longer number is written in full.
ZeroPad(digits, width) ==
    IF Len(digits) >= width THEN digits
    ELSE [ i \in 1..(width - Len(digits)) |-> 0 ] \o digits

\* The part of the name "frame_<digits>.jpg" that differs between frames,
\* with -1 for the "." that follows the digits ("." sorts before every digit).
FrameName(idx) == Append(ZeroPad(DecimalDigits(idx), FRAME_NAME_WIDTH), -1)

\* Python's order on strings: the first differing character decides.
NameLess(a, b) ==
    \E i \in 1..(IF Len(a) < Len(b) THEN Len(a) ELSE Len(b)) :
        /\ a[i] < b[i]
        /\ \A j \in 1..(i - 1) : a[j] = b[j]

RECURSIVE SortedByName(_)
\* sorted(os.listdir(FRAME_FOLDER)): the entries in the order of their names.
SortedByName(S) ==
    IF S = {} THEN <<>>
    ELSE LET f == CHOOSE x \in S :
                    \A y \in S \ {x} : NameLess(FrameName(x.idx), FrameName(y.idx))
         IN  <<f>> \o SortedByName(S \ {f})

\* convert_to_base64: the encoding of the bytes of one image file.
convert_to_base64(f) == [b64 |-> f]

MAX_FRAMES == 12

\* base64frames[:n]
Prefix(seq, n) == SubSeq(seq, 1, IF Len(seq) < n THEN Len(seq) ELSE n)

\* ------------------------------------------------------ seconds and rates
\* Times in seconds and frame rates are rationals n/d with d > 0; the record
\* with d = 0 stands for Python's None.
Rat(n, d) == [n |-> n, d |-> d]
NoTime == Rat(0, 0)
Zero == Rat(0, 1)
RatLeq(a, b) == a.n * b.d <= b.n * a.d
\* int(a * b) for a, b >= 0
IntOfProduct(a, b) == (a.n * b.n) \div (a.d * b.d)
Min(a, b) == IF a < b THEN a ELSE b
Max(a, b) == IF a < b THEN b ELSE a

\* "cap.get(cv2.CAP_PROP_FPS) or 30.0": the rate used when none is reported.
DEFAULT_FPS == 30

\* --------------------------------------------------------------- the video
\* What OpenCV shows of the file at local_video_path: whether the capture
\* opens, the frame rate it reports (0 when it reports none), the number of
\* frames it can read, and what a seek does: "exact" moves to the frame of
\* the requested time and reports that position, "silent" moves there and
\* reports position 0, "none" leaves the capture at frame 0.
Video(opens, rate, nframes, seek) ==
    [opens |-> opens, fps |-> rate, nframes |-> nframes, seek |-> seek]

SeekModes == {"exact", "silent", "none"}

\* ------------------------------------------------------------------- Init
\* extract_frames has not been entered: its locals hold nothing yet.
SamplerIdle ==
    /\ safe_start = Zero
    /\ safe_end = NoTime
    /\ warned = FALSE
    /\ fps = Zero
    /\ frame_skip = 0
    /\ start_frame_idx = 0
    /\ frame_idx = 0
    /\ cap_pos = 0

NoResult == [kind |-> "none", err |-> NoError]

\* A concurrent invocation of video_GPT that has not been called yet.
ThreadIdle ==
    [pc |-> "idle", sampled |-> {}, heard |-> 0, base64frames |-> <<>>,
     submitted |-> <<>>, exc |-> NoError]

\* No concurrent invocation has been called.
ThreadsIdle == threads = [ t \in 1..MaxThreads |-> ThreadIdle ]

\* "error = None", "analysis_output = None" in index.
NoMessage == "None"
\* No request is being handled.
NoRequest == [method |-> "none", video_url |-> <<>>, video_file |-> None]
NoPage == [status |-> 0, error |-> NoMessage, analysis |-> NoMessage]

\* The web application before its first request.
WebIdle ==
    /\ requests = 0
    /\ wpc = "idle"
    /\ request = NoRequest
    /\ temp_path = None
    /\ analysis_source = None
    /\ error = NoMessage
    /\ analysis_output = NoMessage
    /\ tmpFiles = {}
    /\ invoked = <<>>
    /\ response = NoPage

Init ==
    /\ run = 0
    /\ pc = "idle"
    /\ video_source = Src("", NoHost, TRUE)
    /\ local_video_path = None
    /\ temp_dir = None
    /\ cleanup_targets = <<>>
    /\ exc = NoError
    /\ result = NoResult
    /\ YoutubeDL \in BOOLEAN
    /\ has_responses \in BOOLEAN
    /\ tempDirs = {}
    /\ frameDir \in BOOLEAN
    /\ frameFiles \in (IF frameDir THEN SUBSET StaleFrames ELSE {{}})
    /\ audioFile = 0
    /\ created = {}
    /\ delFailed = {}
    /\ cleaned = <<>>
    /\ clip = "unopened"
    /\ trCalls = <<>>
    /\ transcript = <<>>
    /\ baby_cues = <<>>
    /\ base64frames = <<>>
    /\ inferCalls = <<>>
    /\ resp = NoResponse
    /\ printed = <<>>
    /\ videoFiles = {}
    /\ cap = "unopened"
    /\ video = Video(TRUE, Zero, 0, "exact")
    /\ interval_sec = Rat(1, 2)
    /\ start_sec = Zero
    /\ end_sec = NoTime
    /\ SamplerIdle
    /\ cleanupLog = {}
    /\ ThreadsIdle
    /\ WebIdle

env == << YoutubeDL, has_responses >>
web == << requests, wpc, request, temp_path, analysis_source, error,
         analysis_output, tmpFiles, invoked, response >>
sampling == << video, interval_sec, start_sec, end_sec, safe_start, safe_end,
               warned, fps, frame_skip, start_frame_idx, frame_idx, cap_pos >>
fs == << tempDirs, frameDir, frameFiles, audioFile >>
acquired == << local_video_path, temp_dir, cleanup_targets >>
trState == << clip, trCalls, transcript, baby_cues >>
inferState == << base64frames, inferCalls, resp, printed >>

\* ------------------------------------------------- exceptions in video_GPT
\* Raise as it would be with the try block lacking its finally clause: the
\* exception leaves video_GPT at once.
Raise_NoFinally(e) ==
    /\ exc' = e
    /\ pc' = "done"
    /\ result' = [kind |-> "error", err |-> e]

\* Raise as it would be if video_GPT caught the exception and went on to
\* gather the frames and send the request.
Raise_Swallowed(e) ==
    /\ exc' = e
    /\ pc' = "gather"
    /\ result' = result

\* An exception raised inside video_GPT's try block: the finally clause runs
\* cleanup_paths before the exception leaves video_GPT.
Raise(e) ==
    /\ exc' = e
    /\ pc' = "cleanup"
    /\ result' = result

\* An exception raised by prepare_video_input, before the try block.
RaiseBeforeTry(e) ==
    /\ exc' = e
    /\ pc' = "done"
    /\ result' = [kind |-> "error", err |-> e]

\* A step of the try block that completes normally and goes on at label next.
Goto(next) ==
    /\ pc' = next
    /\ UNCHANGED << exc, result >>

\* -------------------------------------------------------------- video_GPT
\* A caller invokes video_GPT(video_path = s).
StartRun ==
    /\ pc \in {"idle", "done"}
    /\ run < MaxRuns
    /\ run' = run + 1
    /\ \E s \in Sources :
       \E present \in (IF is_url(s) THEN {FALSE} ELSE BOOLEAN) :
         /\ video_source' = s
         \* the file the source names as a path exists or not
         /\ videoFiles' = (IF present THEN {LocalFile(s)} ELSE {})
    /\ pc' = "acquire"
    /\ local_video_path' = None
    /\ temp_dir' = None
    /\ cleanup_targets' = <<>>
    /\ exc' = NoError
    /\ result' = NoResult
    /\ created' = {}
    /\ delFailed' = {}
    /\ cleaned' = <<>>
    /\ clip' = "unopened"
    /\ cap' = "unopened"
    /\ trCalls' = <<>>
    /\ transcript' = <<>>
    /\ baby_cues' = <<>>
    /\ base64frames' = <<>>
    /\ inferCalls' = <<>>
    /\ resp' = NoResponse
    /\ printed' = <<>>
    /\ cleanupLog' = {}
    /\ UNCHANGED << env, web, threads, sampling, fs >>

\* ReturnAcquired as it would be if video_GPT also put the returned path on
\* its cleanup list.
ReturnAcquired_OwnsPath(path, td) ==
    /\ local_video_path' = path
    /\ temp_dir' = td
    /\ cleanup_targets' = <<td, path>>
    /\ Goto("sample")

\* prepare_video_input returns (path, td); video_GPT seeds cleanup_targets.
ReturnAcquired(path, td) ==
    /\ local_video_path' = path
    /\ temp_dir' = td
    /\ cleanup_targets' = <<td>>
    /\ Goto("sample")

\* prepare_video_input, "if not is_url(video_source)".
PrepareLocal ==
    /\ pc = "acquire"
    /\ ~is_url(video_source)
    /\ ReturnAcquired(LocalFile(video_source), None)
    /\ UNCHANGED << run, video_source, env, web, threads, cleanupLog, sampling, videoFiles, cap, fs,
                    created, delFailed, cleaned, trState, inferState >>

\* shutil.rmtree(temp_dir, ignore_errors=True): removes the tree, or fails
\* silently and leaves it.
Rmtree(dirs, n, ok) == IF ok THEN dirs \ {n} ELSE dirs

\* YoutubeExcept as it would be with the rmtree call left out.
YoutubeExcept_NoRmtree(n, ok) ==
    /\ tempDirs' = tempDirs
    /\ delFailed' = delFailed

\* The except clause of download_youtube_video.
YoutubeExcept(n, ok) ==
    /\ tempDirs' = Rmtree(tempDirs, n, ok)
    /\ delFailed' = (IF ok THEN delFailed ELSE delFailed \cup {TempDir(n)})

\* The except clause of download_generic_video.
GenericExcept(n, ok) ==
    /\ tempDirs' = Rmtree(tempDirs, n, ok)
    /\ delFailed' = (IF ok THEN delFailed ELSE delFailed \cup {TempDir(n)})

\* download_youtube_video up to the try block: the import check and mkdtemp.
\* The option dictionary built between mkdtemp and the try block raises
\* nothing for arguments of the annotated types.
YoutubeMkdtemp ==
    /\ pc = "acquire"
    /\ is_url(video_source) /\ is_youtube_url(video_source)
    /\ IF ~YoutubeDL
       THEN /\ RaiseBeforeTry("RuntimeError")
            /\ UNCHANGED << tempDirs, created >>
       ELSE /\ tempDirs' = tempDirs \cup {run}
            /\ created' = created \cup {TempDir(run)}
            /\ Goto("yt_download")
    /\ UNCHANGED << run, video_source, env, web, threads, cleanupLog, sampling, videoFiles, cap,
                    acquired, frameDir, frameFiles, audioFile, delFailed,
                    cleaned, trState, inferState >>

\* DownloadedPath as it would be without the test for the merged file.
DownloadedPath_NoMergeCheck(written, n) == DownloadedFile(n)

\* "if os.path.isfile(merged_path): local_path = merged_path", written being
\* the files the download left in the temp directory.
DownloadedPath(written, n) ==
    IF MergedFile(n) \in written THEN MergedFile(n) ELSE DownloadedFile(n)

\* download_youtube_video's try block: extract_info (which leaves the file
\* prepare_filename names, the merged ".mp4" file, or both) and the choice
\* of the path to return.
YoutubeDownload ==
    /\ pc = "yt_download"
    /\ \/ \E written \in (SUBSET {DownloadedFile(run), MergedFile(run)}) \ {{}} :
            /\ videoFiles' = videoFiles \cup written
            /\ ReturnAcquired(DownloadedPath(written, run), TempDir(run))
            /\ UNCHANGED << tempDirs, delFailed >>
       \/ /\ \E ok \in BOOLEAN : YoutubeExcept(run, ok)
          /\ RaiseBeforeTry("DownloadError")
          /\ UNCHANGED << acquired, videoFiles >>
    /\ UNCHANGED << run, video_source, env, web, threads, cleanupLog, sampling, cap, frameDir,
                    frameFiles, audioFile, created, cleaned, trState,
                    inferState >>

\* download_generic_video up to the try block: mkdtemp.
GenericMkdtemp ==
    /\ pc = "acquire"
    /\ is_url(video_source) /\ ~is_youtube_url(video_source)
    /\ tempDirs' = tempDirs \cup {run}
    /\ created' = created \cup {TempDir(run)}
    /\ Goto("gen_download")
    /\ UNCHANGED << run, video_source, env, web, threads, cleanupLog, sampling, videoFiles, cap,
                    acquired, frameDir, frameFiles, audioFile, delFailed,
                    cleaned, trState, inferState >>

\* download_generic_video's try block: urlopen and copyfileobj.
GenericDownload ==
    /\ pc = "gen_download"
    /\ \/ /\ videoFiles' = videoFiles \cup {DownloadedFile(run)}
          /\ ReturnAcquired(DownloadedFile(run), TempDir(run))
          /\ UNCHANGED << tempDirs, delFailed >>
       \/ /\ \E ok \in BOOLEAN : GenericExcept(run, ok)
          /\ RaiseBeforeTry("URLError")
          /\ UNCHANGED << acquired, videoFiles >>
    /\ UNCHANGED << run, video_source, env, web, threads, cleanupLog, sampling, cap, frameDir,
                    frameFiles, audioFile, created, cleaned, trState,
                    inferState >>

\* ---------------------------------------------------------- extract_frames
\* AfterIsOpened as it would be if a capture that does not open were an error.
AfterIsOpened_Fatal(opened, next) ==
    IF opened THEN Goto(next) ELSE Raise("IOError:VideoCapture")

\* "if not cap.isOpened(): print(...); return": extract_frames goes on at
\* next when the capture is open and returns normally when it is not.
AfterIsOpened(opened, next) ==
    IF opened THEN Goto(next) ELSE Goto("openclip")

\* EntriesAfterClean as it would be if ensure_clean_dir deleted nothing.
EntriesAfterClean_NoDelete(entries, failed) == entries

\* The loop of ensure_clean_dir over the entries of the directory: the
\* entries left are those whose deletion failed (each failure is printed).
EntriesAfterClean(entries, failed) == entries \cap failed

\* extract_frames as one step of the pipeline: ensure_clean_dir(FRAME_FOLDER)
\* (an entry whose deletion fails is kept), then the capture is opened (it
\* cannot open a file that does not exist); when it opens, n frames are
\* written, each replacing an entry of the same name.  The frames are
\* numbered 1..n here; ExtractFramesOpen and ExtractFramesLoop below compute
\* the native indices the code gives them.
ExtractFrames ==
    /\ pc = "sample"
    /\ \/ /\ Raise("OSError:makedirs")   \* os.makedirs or os.listdir fails
          /\ UNCHANGED << frameDir, frameFiles, created, delFailed, cap >>
       \/ \E kept \in SUBSET frameFiles, n \in 0..MaxSampled :
          \E opened \in (IF VideoExists(local_video_path) THEN BOOLEAN ELSE {FALSE}) :
            LET written == IF opened
                           THEN { FrameFile(i, run) : i \in 1..n }
                           ELSE {}
            IN  /\ cap' = (IF opened THEN "opened" ELSE "failed")
                /\ ~opened => n = 0
                /\ frameDir' = TRUE
                /\ frameFiles' =
                     { f \in EntriesAfterClean(frameFiles, kept) :
                         \A w \in written : w.idx # f.idx } \cup written
                /\ created' = created \cup {FRAME_FOLDER}
                /\ delFailed' = (IF kept = {} THEN delFailed
                                 ELSE delFailed \cup {FRAME_FOLDER})
                /\ AfterIsOpened(opened, "openclip")
    /\ UNCHANGED << run, video_source, env, web, threads, cleanupLog, sampling, videoFiles, acquired,
                    tempDirs, audioFile, cleaned, trState, inferState >>

\* ------------------------------------- extract_frames, statement by statement
\* "max(0.0, float(start_sec or 0.0))"
SafeStart(start) == IF start = NoTime \/ start.n <= 0 THEN Zero ELSE start

\* SafeEnd as it would be without the test "safe_end <= safe_start".
SafeEnd_Unchecked(start, end) == end

\* Lines 234-239: an end that is not after the start is dropped.
SafeEnd(start, end) ==
    IF end # NoTime /\ RatLeq(end, SafeStart(start)) THEN NoTime ELSE end

\* "cap.get(cv2.CAP_PROP_FPS) or 30.0"
Fps(v) == IF v.fps.n = 0 THEN Rat(DEFAULT_FPS, 1) ELSE v.fps

\* Python's round() of the product of two non-negative rationals: to the
\* nearest integer, a tie going to the even neighbour.
RoundOfProduct(a, b) ==
    LET n == a.n * b.n
        d == a.d * b.d
        q == n \div d
        r == n % d
    IN  IF 2 * r < d THEN q
        ELSE IF 2 * r > d THEN q + 1
        ELSE IF q % 2 = 0 THEN q ELSE q + 1

\* FrameSkip as it would be with round() in place of int().
FrameSkip_Rounded(rate, interval) == Max(1, RoundOfProduct(rate, interval))

\* "max(1, int(fps * interval_sec))"
FrameSkip(rate, interval) == Max(1, IntOfProduct(rate, interval))

\* Where cap.set(cv2.CAP_PROP_POS_MSEC, ...) leaves the capture.
SeekPosition(v, start) ==
    IF start.n = 0 \/ v.seek = "none" THEN 0
    ELSE Min(IntOfProduct(start, Fps(v)), v.nframes)

\* cap.get(cv2.CAP_PROP_POS_FRAMES) after the seek.
PosFrames(v, start) ==
    IF v.seek = "exact" THEN SeekPosition(v, start) ELSE 0

\* "int(pos_frames) if pos_frames > 0 else int(safe_start * fps)"
StartFrameIdx(v, start) ==
    IF PosFrames(v, start) > 0 THEN PosFrames(v, start)
    ELSE IntOfProduct(start, Fps(v))

\* extract_frames up to the loop: ensure_clean_dir, the window, the capture,
\* the rate, the stride and the seek.
ExtractFramesOpen ==
    /\ pc = "sample"
    /\ \/ /\ Raise("OSError:makedirs")   \* os.makedirs or os.listdir fails
          /\ UNCHANGED << frameDir, frameFiles, created, delFailed, cap,
                          safe_start, safe_end, warned, fps, frame_skip,
                          start_frame_idx, frame_idx, cap_pos >>
       \/ \E kept \in SUBSET frameFiles :
            /\ frameDir' = TRUE
            /\ frameFiles' = kept
            /\ created' = created \cup {FRAME_FOLDER}
            /\ delFailed' = (IF kept = {} THEN delFailed
                             ELSE delFailed \cup {FRAME_FOLDER})
            /\ safe_start' = SafeStart(start_sec)
            /\ safe_end' = SafeEnd(start_sec, end_sec)
            /\ warned' = (end_sec # NoTime /\ safe_end' = NoTime)
            /\ frame_idx' = 0
            /\ IF video.opens /\ VideoExists(local_video_path)
               THEN /\ cap' = "opened"
                    /\ fps' = Fps(video)
                    /\ frame_skip' = FrameSkip(fps', interval_sec)
                    /\ cap_pos' = SeekPosition(video, safe_start')
                    /\ start_frame_idx' = StartFrameIdx(video, safe_start')
                    /\ AfterIsOpened(TRUE, "sample_loop")
               ELSE /\ cap' = "failed"
                    /\ UNCHANGED << fps, frame_skip, cap_pos, start_frame_idx >>
                    /\ AfterIsOpened(FALSE, "sample_loop")
    /\ UNCHANGED << run, video_source, env, web, threads, cleanupLog, video, interval_sec, start_sec,
                    end_sec, videoFiles, acquired, tempDirs, audioFile,
                    cleaned, trState, inferState >>

\* AtOrPastEnd as it would be with ">" in place of ">=".
AtOrPastEnd_Strict(current_frame, rate, end) ==
    current_frame * rate.d * end.d > end.n * rate.n

\* "current_time >= safe_end" with current_time = current_frame / fps
AtOrPastEnd(current_frame, rate, end) ==
    current_frame * rate.d * end.d >= end.n * rate.n

\* CurrentFrame as it would be if the loop counter alone were the index.
CurrentFrame_LoopCounter(start, i) == i

\* "current_frame = start_frame_idx + frame_idx"
CurrentFrame(start, i) == start + i

\* IsSampled as it would be if the last frame of each stride were taken.
IsSampled_EndOfStride(i, skip) == i % skip = skip - 1

\* "if frame_idx % frame_skip == 0"
IsSampled(i, skip) == i % skip = 0

\* One pass through the body of "while True": the test of the window's end,
\* cap.read(), the write of every frame_skip-th frame; a break releases the
\* capture and extract_frames returns.
ExtractFramesLoop ==
    /\ pc = "sample_loop"
    /\ LET current_frame == CurrentFrame(start_frame_idx, frame_idx)
       IN  IF \/ safe_end # NoTime /\ AtOrPastEnd(current_frame, fps, safe_end)
              \/ cap_pos + frame_idx >= video.nframes      \* cap.read() fails
           THEN /\ Goto("openclip")
                /\ UNCHANGED << frameFiles, frame_idx >>
           ELSE /\ frameFiles' =
                     (IF IsSampled(frame_idx, frame_skip)
                      THEN { f \in frameFiles : f.idx # current_frame }
                               \cup { FrameFile(current_frame, run) }
                      ELSE frameFiles)
                /\ frame_idx' = frame_idx + 1
                /\ Goto("sample_loop")
    /\ UNCHANGED << run, video_source, env, web, threads, cleanupLog, video, interval_sec, start_sec,
                    end_sec, safe_start, safe_end, warned, fps, frame_skip,
                    start_frame_idx, cap_pos, videoFiles, cap, acquired,
                    tempDirs, frameDir, audioFile, created, delFailed,
                    cleaned, trState, inferState >>

\* -------------------------------------------- extract_audio_and_transcribe
\* NoAudioReturn as it would be with the return statement missing: control
\* falls through to write_audiofile.
NoAudioReturn_FallThrough ==
    /\ transcript' = NO_AUDIO_TEXT
    /\ baby_cues' = <<>>
    /\ Goto("render")

\* "if clip.audio is None": the sentinel transcript and no cues are returned.
NoAudioReturn ==
    /\ transcript' = NO_AUDIO_TEXT
    /\ baby_cues' = <<>>
    /\ Goto("gather")

\* "with VideoFileClip(video_path) as clip" and the test of clip.audio.
OpenClip ==
    /\ pc = "openclip"
    /\ \/ /\ clip' = "error"            \* the clip cannot be opened
          /\ Raise("OSError:VideoFileClip")
          /\ UNCHANGED << transcript, baby_cues >>
       \/ /\ VideoExists(local_video_path)
          /\ clip' = "noaudio"
          /\ NoAudioReturn
       \/ /\ VideoExists(local_video_path)
          /\ clip' = "audio"
          /\ Goto("render")
          /\ UNCHANGED << transcript, baby_cues >>
    /\ UNCHANGED << run, video_source, env, web, threads, cleanupLog, sampling, videoFiles, cap,
                    acquired, fs, created, delFailed, cleaned, trCalls,
                    inferState >>

\* clip.audio.write_audiofile(audio_path): writes the scratch file, or raises
\* (no codec, no ffmpeg) without having created it.
WriteAudiofile ==
    /\ pc = "render"
    /\ \/ /\ audioFile' = run
          /\ created' = created \cup {OUTPUT_AUDIO_PATH}
          /\ Goto("tr_primary")
       \/ /\ Raise("IOError:write_audiofile")
          /\ UNCHANGED << audioFile, created >>
    /\ UNCHANGED << run, video_source, env, web, threads, cleanupLog, sampling, videoFiles, cap,
                    acquired, tempDirs, frameDir, frameFiles, delFailed,
                    cleaned, trState, inferState >>

\* Texts a transcription call had produced when it failed; the exception that
\* reaches transcribe_audio does not carry them.
PartialTexts == { <<"o","w","h">> }

\* One call of client.audio.transcriptions.create.
TrCall(model, ok, text) == [model |-> model, ok |-> ok, text |-> text]

\* AfterPrimary as it would be if the whisper-1 call were made unconditionally.
AfterPrimary_Always(ok) == "tr_fallback"

\* transcribe_audio's try/except: where control goes after the primary call.
AfterPrimary(ok) == IF ok THEN "tr_finish" ELSE "tr_fallback"

\* ReturnedText as it would be if the output of a failed first call were
\* prepended to the text of the second call.
ReturnedText_Merged(calls) ==
    IF Len(calls) = 2 THEN calls[1].text \o calls[2].text ELSE calls[1].text

\* "return resp.text": the text of the response of the call that returned.
ReturnedText(calls) == calls[Len(calls)].text

\* transcribe_audio, the try block: the call with model gpt-4o-transcribe
\* (opening the file that was just rendered is part of the attempt).
TranscribePrimary ==
    /\ pc = "tr_primary"
    /\ \E ok \in BOOLEAN :
       \E text \in (IF ok THEN ServiceTexts ELSE PartialTexts) :
         /\ trCalls' = Append(trCalls, TrCall("gpt-4o-transcribe", ok, text))
         /\ transcript' = (IF ok THEN ReturnedText(trCalls') ELSE transcript)
         /\ Goto(AfterPrimary(ok))
    /\ UNCHANGED << run, video_source, env, web, threads, cleanupLog, sampling, videoFiles, cap,
                    acquired, fs, created, delFailed, cleaned, clip,
                    baby_cues, inferState >>

\* transcribe_audio, the except block: the call with model whisper-1.
TranscribeFallback ==
    /\ pc = "tr_fallback"
    /\ \E ok \in BOOLEAN :
       \E text \in (IF ok THEN ServiceTexts ELSE PartialTexts) :
         /\ trCalls' = Append(trCalls, TrCall("whisper-1", ok, text))
         /\ IF ok
            THEN /\ transcript' = ReturnedText(trCalls')
                 /\ Goto("tr_finish")
            ELSE /\ transcript' = transcript
                 /\ Raise("APIError:whisper-1")
    /\ UNCHANGED << run, video_source, env, web, threads, cleanupLog, sampling, videoFiles, cap,
                    acquired, fs, created, delFailed, cleaned, clip,
                    baby_cues, inferState >>

\* os.remove(audio_path) inside "try ... except OSError: pass".
RemoveAudio(ok) ==
    /\ audioFile' = (IF ok THEN 0 ELSE audioFile)
    /\ delFailed' = (IF ok THEN delFailed ELSE delFailed \cup {OUTPUT_AUDIO_PATH})

\* extract_audio_and_transcribe after transcribe_audio has returned: cue
\* detection, then the removal of the scratch audio file.
FinishTranscribe ==
    /\ pc = "tr_finish"
    /\ baby_cues' = detect_baby_sounds(transcript)
    /\ \E ok \in BOOLEAN : RemoveAudio(ok)
    /\ Goto("gather")
    /\ UNCHANGED << run, video_source, env, web, threads, cleanupLog, sampling, videoFiles, cap,
                    acquired, tempDirs, frameDir, frameFiles, created,
                    cleaned, clip, trCalls, transcript, inferState >>

\* ------------------------------------------------- video_GPT: frame gathering
\* base64frames.append(convert_to_base64(fp)) for each listed file in turn.
EncodeAll(files) == [ i \in 1..Len(files) |-> convert_to_base64(files[i]) ]

\* The loop over sorted(os.listdir(FRAME_FOLDER)) that fills base64frames.
GatherFrames ==
    /\ pc = "gather"
    /\ base64frames' = EncodeAll(SortedByName(frameFiles))
    /\ Goto("infer")
    /\ UNCHANGED << run, video_source, env, web, threads, cleanupLog, sampling, videoFiles, cap,
                    acquired, fs, created, delFailed, cleaned, trState,
                    inferCalls, resp, printed >>

\* ------------------------------------------- analyze_frames_with_responses
\* The texts of the payloads, abridged to a few characters each.
PROMPT_VISION == <<"P">>
TRANSCRIPT_PREFIX == <<"T", ":", " ">>
CUES_PREFIX == <<"C", ":", " ">>
NO_CUES_TEXT == <<"n", "o", "n", "e">>
CUES_SEPARATOR == <<",", " ">>

\* sep.join(items)
RECURSIVE Join(_, _)
Join(sep, items) ==
    IF items = <<>> THEN <<>>
    ELSE IF Len(items) = 1 THEN items[1]
    ELSE items[1] \o sep \o Join(sep, Tail(items))

\* Lines 355-359: the cue summary.
CuesText(cues) ==
    IF cues # <<>> THEN CUES_PREFIX \o Join(CUES_SEPARATOR, cues)
    ELSE NO_CUES_TEXT

\* f"Video audio transcript (may be noisy/partial): {transcript}"
TranscriptLine(t) == TRANSCRIPT_PREFIX \o t

\* f"data:image/jpeg;base64,{b64}"
DataUrl(b64) == [media |-> "data:image/jpeg;base64", data |-> b64]

\* Lines 361-372: the content list of the Responses request.
ResponsesContent(prompt_text, t, cues, frames) ==
    << [type |-> "input_text", text |-> prompt_text],
       [type |-> "input_text", text |-> TranscriptLine(t)],
       [type |-> "input_text", text |-> CuesText(cues)] >>
    \o [ i \in 1..Len(frames) |->
           [type |-> "input_image", image_url |-> DataUrl(frames[i])] ]

\* ChatContent as it would be with the transcript line after the cue summary.
ChatContent_TranscriptLast(prompt_text, t, cues, frames) ==
    << [type |-> "text", text |-> prompt_text],
       [type |-> "text", text |-> CuesText(cues)],
       [type |-> "text", text |-> TranscriptLine(t)] >>
    \o [ i \in 1..Len(frames) |->
           [type |-> "image_url", image_url |-> [url |-> DataUrl(frames[i])]] ]

\* Lines 375-394: the content list of the chat-completions message.
ChatContent(prompt_text, t, cues, frames) ==
    << [type |-> "text", text |-> prompt_text],
       [type |-> "text", text |-> TranscriptLine(t)],
       [type |-> "text", text |-> CuesText(cues)] >>
    \o [ i \in 1..Len(frames) |->
           [type |-> "image_url", image_url |-> [url |-> DataUrl(frames[i])]] ]

MAX_OUTPUT_TOKENS == 300
MAX_TOKENS == 300

\* client.responses.create(model=..., input=[...], max_output_tokens=300)
ResponsesRequest(content) ==
    [model |-> "gpt-4.1-mini",
     input |-> << [role |-> "user", content |-> content] >>,
     max_output_tokens |-> MAX_OUTPUT_TOKENS]

\* client.chat.completions.create(model=..., messages=..., max_tokens=300)
ChatRequest(content) ==
    [model |-> "gpt-4o-mini",
     messages |-> << [role |-> "user", content |-> content] >>,
     max_tokens |-> MAX_TOKENS]

\* One request sent to the inference service.
InferCall(shape, ok) ==
    LET frames == Prefix(base64frames, MAX_FRAMES)
    IN  [shape |-> shape, ok |-> ok, transcript |-> transcript,
         cues |-> baby_cues, images |-> frames,
         request |->
            IF shape = "responses"
            THEN ResponsesRequest(
                    ResponsesContent(PROMPT_VISION, transcript, baby_cues, frames))
            ELSE ChatRequest(
                    ChatContent(PROMPT_VISION, transcript, baby_cues, frames))]

\* Assessment texts the chat-completions shape returns.
ChatTexts == {"C1"}

\* ExceptAttributeError as it would be with "except Exception: pass".
ExceptAttributeError_Any(e) == Goto("infer_fallback")

\* "except AttributeError: pass": an AttributeError raised anywhere in the
\* try block leads to the chat-completions request; any other exception
\* leaves analyze_frames_with_responses.
ExceptAttributeError(e) ==
    IF e = "AttributeError"
    THEN Goto("infer_fallback")
    ELSE Raise(e)

\* The try block up to client.responses.create: getattr(client, "responses")
\* raises AttributeError when the attribute is missing; otherwise the primary
\* request is sent and returns a response or raises an API error.
AnalyzePrimary ==
    /\ pc = "infer"
    /\ IF ~has_responses
       THEN /\ Goto("infer_fallback")
            /\ UNCHANGED << inferCalls, resp >>
       ELSE \/ \E r \in Responses :
                 /\ inferCalls' = Append(inferCalls,
                       InferCall("responses", TRUE))
                 /\ resp' = r
                 /\ Goto("infer_parse")
            \/ /\ inferCalls' = Append(inferCalls,
                     InferCall("responses", FALSE))
               /\ resp' = resp
               /\ ExceptAttributeError("APIError:responses")
    /\ UNCHANGED << run, video_source, env, web, threads, cleanupLog, sampling, videoFiles, cap,
                    acquired, fs, created, delFailed, cleaned, trState,
                    base64frames, printed >>

\* PrintAndReturn as it would be with the return statement missing: control
\* goes on to the chat-completions request.
PrintAndReturn_NoReturn(out) ==
    /\ printed' = Append(printed, out)
    /\ Goto("infer_fallback")

\* "print(...); return" in the try block: the text is emitted and
\* analyze_frames_with_responses returns.
PrintAndReturn(out) ==
    /\ printed' = Append(printed, out)
    /\ Goto("cleanup")

\* The rest of the try block: the text extraction from the response.
ParsePrimary ==
    /\ pc = "infer_parse"
    /\ LET p == ExtractText(resp)
       IN  IF p.outcome = "print"
           THEN PrintAndReturn(p.out)
           ELSE /\ printed' = printed
                /\ ExceptAttributeError(p.outcome)
    /\ UNCHANGED << run, video_source, env, web, threads, cleanupLog, sampling, videoFiles, cap,
                    acquired, fs, created, delFailed, cleaned, trState,
                    base64frames, inferCalls, resp >>

\* client.chat.completions.create and the print of the first choice.
AnalyzeFallback ==
    /\ pc = "infer_fallback"
    /\ \/ \E t \in ChatTexts :
            /\ inferCalls' = Append(inferCalls,
                  InferCall("chat", TRUE))
            /\ printed' = Append(printed, Text(t))
            /\ Goto("cleanup")
       \/ /\ inferCalls' = Append(inferCalls,
                InferCall("chat", FALSE))
          /\ printed' = printed
          /\ Raise("APIError:chat")
    /\ UNCHANGED << run, video_source, env, web, threads, cleanupLog, sampling, videoFiles, cap,
                    acquired, fs, created, delFailed, cleaned, trState,
                    base64frames, resp >>

\* ------------------------------------------------------------ cleanup_paths
\* The paths of a list that cleanup_paths does not skip ("if not path").
Targets(paths) == SelectSeq(paths, LAMBDA p : p # None)

\* The temp directories left after cleanup_paths has gone through paths;
\* okTemp tells whether shutil.rmtree(..., ignore_errors=True) succeeds.
TempDirsAfter(paths, okTemp) ==
    { n \in tempDirs :
        \/ ~okTemp
        \/ \A i \in 1..Len(paths) : paths[i] # TempDir(n) }

\* The paths of a list that take the branch "elif os.path.exists(path)":
\* they exist and are not directories.
FileTargets(paths) ==
    { q \in { paths[i] : i \in 1..Len(paths) } :
        ~IsDir(q) /\ (Exists(q) \/ VideoExists(q)) }

\* The finally clause of video_GPT: cleanup_paths(cleanup_targets +
\* [FRAME_FOLDER]); then the pending exception, if any, reaches the caller.
\* A directory goes to shutil.rmtree(path, ignore_errors=True), which prints
\* nothing when it fails; a file goes to os.remove, whose OSError is printed.
CleanupPaths ==
    /\ pc = "cleanup"
    /\ LET paths == cleanup_targets \o <<FRAME_FOLDER>>
       IN  \E files \in {FileTargets(paths)} :
           \E okFile \in (IF files = {} THEN {TRUE} ELSE BOOLEAN),
              okTemp \in BOOLEAN, okFrames \in BOOLEAN,
              rest \in SUBSET frameFiles :
             /\ okTemp \/ \E i \in 1..Len(paths) : IsDir(paths[i]) /\ paths[i].kind = "tempdir"
             /\ okFrames \/ frameDir
             /\ okFrames => rest = {}
             /\ tempDirs' = TempDirsAfter(paths, okTemp)
             /\ frameDir' = (frameDir /\ ~okFrames)
             /\ frameFiles' = rest
             /\ videoFiles' = (IF okFile THEN videoFiles \ files ELSE videoFiles)
             /\ cleanupLog' = cleanupLog \cup (IF okFile THEN {} ELSE files)
             /\ delFailed' = delFailed
                   \cup (IF okTemp THEN {} ELSE {temp_dir})
                   \cup (IF okFrames THEN {} ELSE {FRAME_FOLDER})
                   \cup (IF okFile THEN {} ELSE files)
             /\ cleaned' = Targets(paths)
    /\ pc' = "done"
    /\ exc' = exc
    /\ result' = (IF exc = NoError
                  THEN [kind |-> "ok", err |-> NoError]
                  ELSE [kind |-> "error", err |-> exc])
    /\ UNCHANGED << run, video_source, env, web, threads, sampling, cap,
                    acquired, audioFile, created, trState, inferState >>

\* ------------------------------------------------------------------- Next
Next ==
    \/ StartRun
    \/ PrepareLocal
    \/ YoutubeMkdtemp
    \/ YoutubeDownload
    \/ GenericMkdtemp
    \/ GenericDownload
    \/ ExtractFrames
    \/ OpenClip
    \/ WriteAudiofile
    \/ TranscribePrimary
    \/ TranscribeFallback
    \/ FinishTranscribe
    \/ GatherFrames
    \/ AnalyzePrimary
    \/ ParsePrimary
    \/ AnalyzeFallback
    \/ CleanupPaths

Spec == Init /\ [][Next]_vars

\* ------------------------------------------ prepare_video_input on its own
\* The source strings prepare_video_input is given: every scheme with every
\* host, parsed by urlparse or rejected by it.
Schemes == {"", "http", "https", "ftp", "file", "rtsp", "c"}
Hosts ==
    { NoHost, HostWwwYoutube, HostYoutuBe, HostExample, HostUpperYoutube,
      HostUpperYoutuBe, HostYoutubeOrg, HostNotYoutube }
AllSources == { Src(sch, h, ok) : sch \in Schemes, h \in Hosts, ok \in BOOLEAN }

\* An invocation fresh after "def video_GPT(...)": nothing acquired, nothing
\* created, no stage entered.
FreshRun ==
    /\ local_video_path = None
    /\ temp_dir = None
    /\ cleanup_targets = <<>>
    /\ exc = NoError
    /\ result = NoResult
    /\ created = {}
    /\ delFailed = {}
    /\ cleaned = <<>>
    /\ clip = "unopened"
    /\ cap = "unopened"
    /\ trCalls = <<>>
    /\ transcript = <<>>
    /\ baby_cues = <<>>
    /\ base64frames = <<>>
    /\ inferCalls = <<>>
    /\ resp = NoResponse
    /\ printed = <<>>

\* video_GPT has been invoked with one of AllSources and is about to call
\* prepare_video_input.
InitClassify ==
    /\ run = 1
    /\ pc = "acquire"
    /\ video_source \in AllSources
    /\ FreshRun
    /\ YoutubeDL \in BOOLEAN
    /\ has_responses = TRUE
    /\ tempDirs = {}
    /\ frameDir = FALSE
    /\ frameFiles = {}
    /\ audioFile = 0
    /\ videoFiles = {LocalFile(video_source)}
    /\ video = Video(TRUE, Zero, 0, "exact")
    /\ interval_sec = Rat(1, 2)
    /\ start_sec = Zero
    /\ end_sec = NoTime
    /\ SamplerIdle
    /\ cleanupLog = {}
    /\ ThreadsIdle
    /\ WebIdle

\* The three ways prepare_video_input goes on from the classification.
NextClassify ==
    \/ PrepareLocal
    \/ YoutubeMkdtemp
    \/ GenericMkdtemp

SpecClassify == InitClassify /\ [][NextClassify]_vars

\* --------------------------------------------- cue detection on its own
\* Words a transcript is made of, and what separates them.
CueWords ==
    { <<"n","e","h">>, <<"N","E","H">>, <<"H","e","h">>, <<"e","h">>,
      <<"o","w","h">>, <<"e","a","i","r">>, <<"e">>, <<"n","e","h","h">>,
      <<"e","h","_">> }
CoreWords == { <<"n","e","h">>, <<"H","E","H">>, <<"e","h">>, <<"o","w","h">> }
Separators == { <<" ">>, <<"-">>, <<>> }

\* The transcripts transcribe_audio returns: up to three words.
CueTexts ==
    {<<>>} \cup CueWords
      \cup { a \o sep \o b : a \in CueWords, sep \in Separators, b \in CueWords }
      \cup { a \o <<" ">> \o b \o <<" ">> \o c :
                a \in CoreWords, b \in CoreWords, c \in CoreWords }

\* extract_audio_and_transcribe of a local file with an audio track:
\* transcribe_audio has just returned one of CueTexts from its first call.
InitCues ==
    /\ run = 1
    /\ pc = "tr_finish"
    /\ video_source = Src("", NoHost, TRUE)
    /\ local_video_path = LocalFile(video_source)
    /\ temp_dir = None
    /\ cleanup_targets = <<None>>
    /\ exc = NoError
    /\ result = NoResult
    /\ YoutubeDL = TRUE
    /\ has_responses = TRUE
    /\ tempDirs = {}
    /\ frameDir = TRUE
    /\ frameFiles = {}
    /\ audioFile = run
    /\ created = {FRAME_FOLDER, OUTPUT_AUDIO_PATH}
    /\ delFailed = {}
    /\ cleaned = <<>>
    /\ clip = "audio"
    /\ transcript \in CueTexts
    /\ trCalls = << TrCall("gpt-4o-transcribe", TRUE, transcript) >>
    /\ baby_cues = <<>>
    /\ base64frames = <<>>
    /\ inferCalls = <<>>
    /\ resp = NoResponse
    /\ printed = <<>>
    /\ videoFiles = {local_video_path}
    /\ cap = "failed"
    /\ video = Video(FALSE, Zero, 0, "exact")
    /\ interval_sec = Rat(1, 2)
    /\ start_sec = Zero
    /\ end_sec = NoTime
    /\ SamplerIdle
    /\ cleanupLog = {}
    /\ ThreadsIdle
    /\ WebIdle

NextCues == FinishTranscribe

SpecCues == InitCues /\ [][NextCues]_vars

\* ----------------------------------------- the sampler, statement by statement
\* The clips the sampler is run on: rate reported by OpenCV and frame count.
Clips ==
    { [fps |-> Rat(30, 1),     nframes |-> TenSecondClipFrames],
      [fps |-> Rat(30, 1),     nframes |-> LongClipFrames],
      [fps |-> Zero,           nframes |-> ShortClipFrames],
      [fps |-> Rat(2997, 100), nframes |-> ShortClipFrames],
      [fps |-> Rat(15, 1),     nframes |-> ShortClipFrames],
      [fps |-> Rat(1, 1),      nframes |-> ShortClipFrames] }

\* The windows <<start_sec, end_sec>> video_GPT is invoked with.
Windows ==
    { <<Zero, NoTime>>, <<NoTime, NoTime>>, <<Rat(2, 1), NoTime>>,
      <<Rat(2, 1), Rat(5, 1)>>, <<Zero, Rat(1, 2)>>,
      <<Rat(2, 1), Rat(2, 1)>>, <<Rat(5, 1), Rat(2, 1)>>, <<Zero, Zero>>,
      <<Rat(-1, 1), NoTime>>, <<Rat(-3, 1), Rat(-1, 1)>>,
      <<Rat(LongClipStart, 1), NoTime>> }

\* The long recording is only sampled near its end, with a working seek.
Sampled(c, w, seek) ==
    c.nframes = LongClipFrames =>
        w[1] = Rat(LongClipStart, 1) /\ seek # "none"

\* video_GPT has been invoked with a local file and a window, and
\* prepare_video_input has returned.
InitFrames ==
    /\ run = 1
    /\ pc = "sample"
    /\ video_source = Src("", NoHost, TRUE)
    /\ local_video_path = LocalFile(video_source)
    /\ temp_dir = None
    /\ cleanup_targets = <<None>>
    /\ exc = NoError
    /\ result = NoResult
    /\ YoutubeDL = TRUE
    /\ has_responses \in BOOLEAN
    /\ tempDirs = {}
    /\ frameDir = FALSE
    /\ frameFiles = {}
    /\ audioFile = 0
    /\ created = {}
    /\ delFailed = {}
    /\ cleaned = <<>>
    /\ clip = "unopened"
    /\ trCalls = <<>>
    /\ transcript = <<>>
    /\ baby_cues = <<>>
    /\ base64frames = <<>>
    /\ inferCalls = <<>>
    /\ resp = NoResponse
    /\ printed = <<>>
    /\ videoFiles = {local_video_path}
    /\ cap = "unopened"
    /\ \E c \in Clips, w \in Windows, seek \in SeekModes, opens \in BOOLEAN :
         /\ Sampled(c, w, seek)
         /\ video = Video(opens, c.fps, c.nframes, seek)
         /\ start_sec = w[1]
         /\ end_sec = w[2]
    /\ interval_sec = Rat(1, 2)
    /\ SamplerIdle
    /\ cleanupLog = {}
    /\ ThreadsIdle
    /\ WebIdle

\* From the call of extract_frames to the inference request.
NextFrames ==
    \/ ExtractFramesOpen
    \/ ExtractFramesLoop
    \/ OpenClip
    \/ GatherFrames
    \/ AnalyzePrimary
    \/ AnalyzeFallback

SpecFrames == InitFrames /\ [][NextFrames]_vars

\* extract_frames runs in the caller's thread without waiting for anything:
\* a pass of the loop that can be taken is taken.
SpecFramesFair == SpecFrames /\ WF_vars(ExtractFramesLoop)

\* ------------------------------------------- concurrent invocations of video_GPT
\* Several callers (two web requests, say) are inside video_GPT at once, each
\* with a local video that opens and has an audio track.  FRAME_FOLDER and
\* OUTPUT_AUDIO_PATH are module constants, so frameDir, frameFiles and
\* audioFile are the same for all of them; every stage is one step, and no
\* deletion fails.
PipelineIdle ==
    /\ run = 0
    /\ pc = "idle"
    /\ video_source = Src("", NoHost, TRUE)
    /\ FreshRun
    /\ YoutubeDL = TRUE
    /\ has_responses = TRUE
    /\ tempDirs = {}
    /\ audioFile = 0
    /\ videoFiles = {}
    /\ video = Video(TRUE, Zero, 0, "exact")
    /\ interval_sec = Rat(1, 2)
    /\ start_sec = Zero
    /\ end_sec = NoTime
    /\ SamplerIdle
    /\ cleanupLog = {}

InitThreads ==
    /\ PipelineIdle
    /\ frameDir = FALSE
    /\ frameFiles = {}
    /\ ThreadsIdle
    /\ WebIdle

\* What the threads do not touch.
sequential ==
    << run, pc, video_source, local_video_path, temp_dir, cleanup_targets,
       exc, result, env, tempDirs, created, delFailed, cleaned, trState,
       inferState, videoFiles, cap, sampling, cleanupLog, web >>

\* Thread t goes on with the locals rec.
ThreadStep(t, rec) == threads' = [threads EXCEPT ![t] = rec]

\* An exception inside the try block of thread t: on to the finally clause.
ThreadRaise(t, e) ==
    ThreadStep(t, [threads[t] EXCEPT !.exc = e, !.pc = "cleanup"])

\* A caller invokes video_GPT with a local path.
ThreadStart(t) ==
    /\ threads[t].pc = "idle"
    /\ ThreadStep(t, [threads[t] EXCEPT !.pc = "sample"])
    /\ UNCHANGED << sequential, frameDir, frameFiles, audioFile >>

\* extract_frames in thread t: ensure_clean_dir(FRAME_FOLDER) empties the
\* directory, whoever filled it, and the sampled frames are written to it.
ThreadExtractFrames(t) ==
    /\ threads[t].pc = "sample"
    /\ \E n \in 0..MaxSampled :
         LET written == { FrameFile(i, t) : i \in 1..n }
         IN  /\ frameDir' = TRUE
             /\ frameFiles' = written
             /\ ThreadStep(t, [threads[t] EXCEPT !.sampled = written,
                                                 !.pc = "audio"])
    /\ UNCHANGED << sequential, audioFile >>

\* clip.audio.write_audiofile(OUTPUT_AUDIO_PATH) in thread t.
ThreadWriteAudiofile(t) ==
    /\ threads[t].pc = "audio"
    /\ audioFile' = t
    /\ ThreadStep(t, [threads[t] EXCEPT !.pc = "transcribe"])
    /\ UNCHANGED << sequential, frameDir, frameFiles >>

\* transcribe_audio(OUTPUT_AUDIO_PATH) and os.remove(audio_path) in thread t:
\* open() raises when the file is gone; otherwise the service hears the
\* rendering that is in the file, and the file is removed.
ThreadTranscribe(t) ==
    /\ threads[t].pc = "transcribe"
    /\ IF audioFile = 0
       THEN /\ ThreadRaise(t, "FileNotFoundError:audio")
            /\ audioFile' = audioFile
       ELSE /\ ThreadStep(t, [threads[t] EXCEPT !.heard = audioFile,
                                                !.pc = "gather"])
            /\ audioFile' = 0
    /\ UNCHANGED << sequential, frameDir, frameFiles >>

\* The gathering loop in thread t: os.listdir raises when FRAME_FOLDER is gone.
ThreadGatherFrames(t) ==
    /\ threads[t].pc = "gather"
    /\ IF ~frameDir
       THEN ThreadRaise(t, "FileNotFoundError:listdir")
       ELSE ThreadStep(t, [threads[t] EXCEPT
                !.base64frames = EncodeAll(SortedByName(frameFiles)),
                !.pc = "infer"])
    /\ UNCHANGED << sequential, frameDir, frameFiles, audioFile >>

\* analyze_frames_with_responses in thread t: the request carries
\* base64frames[:MAX_FRAMES].
ThreadAnalyze(t) ==
    /\ threads[t].pc = "infer"
    /\ ThreadStep(t, [threads[t] EXCEPT
            !.submitted = Prefix(threads[t].base64frames, MAX_FRAMES),
            !.pc = "cleanup"])
    /\ UNCHANGED << sequential, frameDir, frameFiles, audioFile >>

\* The finally clause in thread t: cleanup_paths([None, FRAME_FOLDER]).
ThreadCleanupPaths(t) ==
    /\ threads[t].pc = "cleanup"
    /\ frameDir' = FALSE
    /\ frameFiles' = {}
    /\ ThreadStep(t, [threads[t] EXCEPT !.pc = "done"])
    /\ UNCHANGED << sequential, audioFile >>

NextThreads ==
    \E t \in 1..MaxThreads :
        \/ ThreadStart(t)
        \/ ThreadExtractFrames(t)
        \/ ThreadWriteAudiofile(t)
        \/ ThreadTranscribe(t)
        \/ ThreadGatherFrames(t)
        \/ ThreadAnalyze(t)
        \/ ThreadCleanupPaths(t)

SpecThreads == InitThreads /\ [][NextThreads]_vars

\* ------------------------------------------------------ the web handler index
\* A form field or file part of a request: absent, or present with a text
\* (the field's value, the file's name).
Part(present, text) == [present |-> present, text |-> text]

\* The values of the form field video_url that requests carry.
FormUrls ==
    { Part(FALSE, <<>>), Part(TRUE, <<>>), Part(TRUE, <<" ", " ">>),
      Part(TRUE, <<"u">>), Part(TRUE, <<" ", "u", " ">>) }

\* The file parts video_file that requests carry: none, one without a file
\* name (no file chosen), one named with and one named without a suffix.
FileParts ==
    { Part(FALSE, <<>>), Part(TRUE, <<>>),
      Part(TRUE, <<"a", ".", "m", "o", "v">>), Part(TRUE, <<"a">>) }

\* str.strip() on the texts of FormUrls.
RECURSIVE Strip(_)
Strip(text) ==
    IF text = <<>> THEN <<>>
    ELSE IF Head(text) = " " THEN Strip(Tail(text))
    ELSE IF text[Len(text)] = " " THEN Strip(SubSeq(text, 1, Len(text) - 1))
    ELSE text

\* '(request.form.get("video_url") or "").strip()'
VideoUrl(req) == IF req.video_url.present THEN Strip(req.video_url.text) ELSE <<>>

\* "uploaded_file and uploaded_file.filename"
HasUpload(req) == req.video_file.present /\ req.video_file.text # <<>>

\* 'Path(uploaded_file.filename).suffix or ".mp4"'
Suffix(name) ==
    IF \E i \in 2..Len(name) : name[i] = "."
    THEN LET i == CHOOSE k \in 2..Len(name) :
                     name[k] = "." /\ \A j \in (k + 1)..Len(name) : name[j] # "."
         IN  SubSeq(name, i, Len(name))
    ELSE <<".", "m", "p", "4">>

\* The file tempfile.NamedTemporaryFile creates for the n-th request.
TmpFile(n, suffix) == [kind |-> "upload", id |-> n, suffix |-> suffix]
\* A URL given to run_analysis.
UrlSource(text) == [kind |-> "url", id |-> 0, text |-> text]

MSG_NOTHING_GIVEN == "Please upload a video or provide a URL."
MSG_BOTH_GIVEN == "Provide either a video file or a URL, not both."
MSG_FAILED == "Analysis failed: "
PipelineOutputs == {"", "assessment"}

InitWeb ==
    /\ PipelineIdle
    /\ frameDir = FALSE
    /\ frameFiles = {}
    /\ ThreadsIdle
    /\ WebIdle

\* What the handler does not touch.
offline ==
    << run, pc, video_source, acquired, exc, result, env, fs, created,
       delFailed, cleaned, trState, inferState, videoFiles, cap, sampling,
       cleanupLog, threads >>

\* A request arrives: lines 67-79, up to the try statement.
IndexValidate ==
    /\ wpc = "idle"
    /\ requests < MaxRequests
    /\ requests' = requests + 1
    /\ \E method \in {"GET", "POST"}, u \in FormUrls, f \in FileParts :
         LET req == [method |-> method, video_url |-> u, video_file |-> f]
         IN  /\ request' = req
             /\ IF method # "POST"
                THEN error' = NoMessage /\ wpc' = "render"
                ELSE IF VideoUrl(req) = <<>> /\ ~HasUpload(req)
                THEN error' = MSG_NOTHING_GIVEN /\ wpc' = "render"
                ELSE IF VideoUrl(req) # <<>> /\ HasUpload(req)
                THEN error' = MSG_BOTH_GIVEN /\ wpc' = "render"
                ELSE error' = NoMessage /\ wpc' = "try"
    /\ analysis_output' = NoMessage
    /\ temp_path' = None
    /\ analysis_source' = None
    /\ invoked' = <<>>
    /\ response' = NoPage
    /\ UNCHANGED << offline, tmpFiles >>

\* "except Exception as exc": the message is kept and the finally clause runs.
ExceptException(e) ==
    /\ error' = MSG_FAILED \o e
    /\ wpc' = "finally"

\* Lines 81-90: the source is the URL, or the upload saved to a fresh
\* temporary file; NamedTemporaryFile or uploaded_file.save can raise.
IndexSource ==
    /\ wpc = "try"
    /\ IF HasUpload(request)
       THEN LET tmp == TmpFile(requests, Suffix(request.video_file.text))
            IN  \/ /\ ExceptException("OSError:NamedTemporaryFile")
                   /\ UNCHANGED << tmpFiles, temp_path, analysis_source >>
                \/ /\ tmpFiles' = tmpFiles \cup {tmp}
                   /\ ExceptException("OSError:save")
                   /\ UNCHANGED << temp_path, analysis_source >>
                \/ /\ tmpFiles' = tmpFiles \cup {tmp}
                   /\ temp_path' = tmp
                   /\ analysis_source' = tmp
                   /\ wpc' = "analyze"
                   /\ error' = error
       ELSE /\ analysis_source' = UrlSource(VideoUrl(request))
            /\ wpc' = "analyze"
            /\ UNCHANGED << tmpFiles, temp_path, error >>
    /\ UNCHANGED << offline, requests, request, analysis_output, invoked,
                    response >>

\* "analysis_output = run_analysis(source)": video_GPT runs with stdout
\* captured and returns, or raises.
RunAnalysis ==
    /\ wpc = "analyze"
    /\ invoked' = Append(invoked, analysis_source)
    /\ \/ \E out \in PipelineOutputs :
            /\ analysis_output' = out
            /\ error' = error
            /\ wpc' = "finally"
       \/ /\ ExceptException("video_GPT")
          /\ analysis_output' = analysis_output
    /\ UNCHANGED << offline, requests, request, temp_path, analysis_source,
                    tmpFiles, response >>

\* The finally clause, lines 95-97: os.remove can raise, and the exception
\* then leaves index (the client gets a server error).
IndexFinally ==
    /\ wpc = "finally"
    /\ IF temp_path # None /\ temp_path \in tmpFiles
       THEN \/ /\ tmpFiles' = tmpFiles \ {temp_path}
               /\ wpc' = "render"
               /\ response' = response
            \/ /\ tmpFiles' = tmpFiles
               /\ wpc' = "idle"
               /\ response' = [status |-> 500, error |-> NoMessage,
                                analysis |-> NoMessage]
       ELSE /\ wpc' = "render"
            /\ UNCHANGED << tmpFiles, response >>
    /\ UNCHANGED << offline, requests, request, temp_path, analysis_source,
                    error, analysis_output, invoked >>

\* "return render_template_string(...)"
IndexRender ==
    /\ wpc = "render"
    /\ response' = [status |-> 200, error |-> error, analysis |-> analysis_output]
    /\ wpc' = "idle"
    /\ UNCHANGED << offline, requests, request, temp_path, analysis_source,
                    error, analysis_output, tmpFiles, invoked >>

NextWeb ==
    \/ IndexValidate
    \/ IndexSource
    \/ RunAnalysis
    \/ IndexFinally
    \/ IndexRender

SpecWeb == InitWeb /\ [][NextWeb]_vars

\* ================================================================= claims
\* The current invocation got past prepare_video_input into the try block.
InTry == cleanup_targets # <<>>

\* The request shapes sent so far by the current invocation.
Shapes == { inferCalls[i].shape : i \in DOMAIN inferCalls }

\* Errors that leave analyze_frames_with_responses.
InferErrors == {"APIError:responses", "TypeError", "APIError:chat"}

\* C1: once a run is over, every temporary directory and file it created
\* (acquisition temp directory, frame directory, scratch audio file) is gone,
\* wherever the run failed, and the frame directory is gone after every run
\* that reached the try block -- read for runs in which no deletion failed.
C1_CleanupInvariant ==
    (pc = "done" /\ delFailed = {}) =>
        /\ \A p \in created : ~Exists(p)
        /\ InTry => ~frameDir

\* C2: when a run that reached the try block is over, cleanup_paths has gone
\* through the acquisition temp directory (when there is one) and the frame
\* directory, both are gone unless their deletion failed, and the caller
\* receives exactly the error the failing stage raised (none on success).
C2_CleanupOnEveryExit ==
    (pc = "done" /\ InTry) =>
        /\ cleaned = Targets(<<temp_dir, FRAME_FOLDER>>)
        /\ (temp_dir # None /\ temp_dir \notin delFailed) => ~IsDir(temp_dir)
        /\ FRAME_FOLDER \notin delFailed => ~frameDir
        /\ result = (IF exc = NoError
                     THEN [kind |-> "ok", err |-> NoError]
                     ELSE [kind |-> "error", err |-> exc])

C2_Witness ==
    /\ pc = "done"
    /\ exc = "APIError:whisper-1"
    /\ temp_dir # None
    /\ cleaned = <<temp_dir, FRAME_FOLDER>>
    /\ result.err = exc

\* C3: once the scratch audio file has been rendered, it is gone when
\* extract_audio_and_transcribe has ended, whether transcription succeeded or
\* both calls failed (unless its deletion failed), and a failed deletion
\* raises nothing.
C3_AudioRemovedAfterStage ==
    /\ ( /\ OUTPUT_AUDIO_PATH \in created
         /\ pc \notin {"tr_primary", "tr_fallback", "tr_finish"}
         /\ OUTPUT_AUDIO_PATH \notin delFailed )
       => audioFile = 0
    /\ (OUTPUT_AUDIO_PATH \in delFailed /\ pc = "gather") => exc = NoError

C5_TranscriptionFallbackPolicy ==
    /\ Len(trCalls) <= 2
    /\ Len(trCalls) >= 1 => trCalls[1].model = "gpt-4o-transcribe"
    /\ Len(trCalls) = 2 => (trCalls[2].model = "whisper-1" /\ ~trCalls[1].ok)
    /\ (Len(trCalls) = 1 /\ ~trCalls[1].ok) => pc = "tr_fallback"
    /\ (Len(trCalls) = 2 /\ ~trCalls[2].ok) =>
          (exc = "APIError:whisper-1" /\ pc \in {"cleanup", "done"})

C5_Witness ==
    /\ pc = "done"
    /\ Len(trCalls) = 2
    /\ ~trCalls[2].ok

\* C6: the transcript is exactly the text of the call that returned (the
\* fallback's text when the primary failed); the cues held when the stage has
\* returned are those detected in that text, and every inference request
\* carries that text and those cues.
C6_TranscriptIsReturnedText ==
    LET n == Len(trCalls)
    IN  (n >= 1 /\ trCalls[n].ok) =>
          /\ transcript = trCalls[n].text
          /\ pc \in {"gather", "infer"} =>
                baby_cues = detect_baby_sounds(trCalls[n].text)
          /\ \A i \in DOMAIN inferCalls :
                /\ inferCalls[i].transcript = trCalls[n].text
                /\ inferCalls[i].cues = baby_cues

C6_Witness ==
    /\ Len(trCalls) = 2
    /\ trCalls[2].ok
    /\ trCalls[1].text # trCalls[2].text
    /\ baby_cues # <<>>
    /\ inferCalls # <<>>

\* C7 as stated: whenever analyze_frames_with_responses raises, both request
\* shapes were tried and both failed.
C7_FailsOnlyIfBothShapesFailed ==
    exc \in InferErrors =>
        /\ \E i \in DOMAIN inferCalls :
              inferCalls[i].shape = "responses" /\ ~inferCalls[i].ok
        /\ \E i \in DOMAIN inferCalls :
              inferCalls[i].shape = "chat" /\ ~inferCalls[i].ok

\* C7 as amended: analyze_frames_with_responses raises either because the
\* primary call or the parsing of its response raised an error other than
\* AttributeError, and then the fallback shape is not tried, or because the
\* fallback call raised, which is reached only after an AttributeError; a
\* failed primary call ends the stage in error.
C7_RaisesOnPrimaryOrFallbackFailure ==
    /\ exc \in InferErrors =>
          \/ exc \in {"APIError:responses", "TypeError"} /\ Shapes = {"responses"}
          \/ /\ exc = "APIError:chat"
             /\ inferCalls[Len(inferCalls)].shape = "chat"
             /\ ~inferCalls[Len(inferCalls)].ok
             /\ ~has_responses \/ ExtractText(resp).outcome = "AttributeError"
    /\ \A i \in DOMAIN inferCalls :
          (inferCalls[i].shape = "responses" /\ ~inferCalls[i].ok) =>
              (exc = "APIError:responses" /\ Len(inferCalls) = 1)

C7_Witness ==
    /\ pc = "done"
    /\ exc = "APIError:responses"
    /\ Len(inferCalls) = 1
    /\ printed = <<>>

\* C8: the chat-completions request is sent only when the client lacks the
\* responses capability, and no run sends both requests.
C8_FallbackOnlyWhenCapabilityAbsent ==
    "chat" \in Shapes => (~has_responses /\ "responses" \notin Shapes)

\* The extraction order the specification describes: (a) output_text when
\* populated; (b) else the first text-bearing entry of the first message-type
\* block; (c) else the raw response.  A missing field selects the next case.
ExpectedText(r) ==
    LET blocks == IF r.outputKind = "list" THEN r.output ELSE <<>>
        msgs == { i \in DOMAIN blocks : blocks[i].type = "message" }
        first == CHOOSE i \in msgs : \A j \in msgs : i <= j
        content == IF blocks[first].contentKind = "list"
                   THEN blocks[first].content ELSE <<>>
        texts == { j \in DOMAIN content :
                     content[j].type = "output_text" /\ content[j].text # "ABSENT" }
        t == CHOOSE j \in texts : \A k \in texts : j <= k
    IN  IF r.hasOutputText /\ Truthy(r.output_text) THEN Text(r.output_text)
        ELSE IF msgs # {} /\ texts # {} THEN Text(content[t].text)
        ELSE Repr(r)

\* C9: once a primary-shape response has been handled, exactly the text chosen
\* by the priority order has been emitted, nothing was raised and no other
\* request was sent.
C9_ExtractionNeverRaises ==
    (resp # NoResponse /\ pc \in {"infer_fallback", "cleanup", "done"}) =>
        /\ printed = << ExpectedText(resp) >>
        /\ Len(inferCalls) = 1
        /\ exc = NoError

\* C10: for a clip without audio track the stage returns the sentinel and no
\* cues, raises nothing, calls no transcription model and writes no scratch
\* audio file.
C10_NoAudioNoCalls ==
    clip = "noaudio" =>
        /\ transcript = NO_AUDIO_TEXT
        /\ baby_cues = <<>>
        /\ trCalls = <<>>
        /\ OUTPUT_AUDIO_PATH \notin created
        /\ audioFile # run
        /\ exc \notin {"OSError:VideoFileClip", "IOError:write_audiofile",
                       "APIError:whisper-1"}

C10_Witness ==
    /\ clip = "noaudio"
    /\ pc = "done"
    /\ result.kind = "ok"
    /\ printed # <<>>

\* C11: every inference request, of either shape, carries exactly
\* min(n, MAX_FRAMES) images, n being the number of frames the sampler saved,
\* and its i-th image is the saved frame with the i-th smallest native frame
\* index: the first min(n, MAX_FRAMES) frames, none skipped, repeated or
\* out of order.
C11_FirstFramesInIndexOrder ==
    \A k \in 1..Len(inferCalls) :
        LET images == inferCalls[k].images
        IN  /\ Len(images) = Min(Cardinality(frameFiles), MAX_FRAMES)
            /\ \A i \in 1..Len(images) :
                 /\ images[i].b64 \in frameFiles
                 /\ Cardinality({ f \in frameFiles :
                                    f.idx < images[i].b64.idx }) = i - 1

\* The kind prepare_video_input has treated the source as, read off the
\* branch it took: Local returns at once without a temp directory, the
\* platform branch checks for yt_dlp and starts its download, the generic
\* branch starts the generic download.
Route ==
    CASE pc = "sample" /\ temp_dir = None -> "Local"
      [] pc = "yt_download" \/ exc = "RuntimeError" -> "PlatformHosted"
      [] pc = "gen_download" -> "RemoteFile"
      [] OTHER -> "pending"

HttpScheme(source) == source.scheme \in {"http", "https"}

\* C12 as stated: a string without a scheme is Local, an http/https string
\* whose host matches a platform pattern is PlatformHosted, and every other
\* string that carries a scheme is RemoteFile.
C12_EveryOtherSchemeIsRemoteFile ==
    Route # "pending" =>
        /\ video_source.scheme = "" => Route = "Local"
        /\ HttpScheme(video_source) /\ is_youtube_url(video_source)
              => Route = "PlatformHosted"
        /\ /\ video_source.scheme # ""
           /\ ~(HttpScheme(video_source) /\ is_youtube_url(video_source))
              => Route = "RemoteFile"

\* C12, amended: only strings that urlparse accepts with the scheme http or
\* https are URLs; of these, the ones whose lower-cased host contains
\* "youtube.com" or "youtu.be" are PlatformHosted and all others RemoteFile;
\* every other string, whatever scheme it carries, is Local.
C12_OnlyHttpSchemesAreRemote ==
    Route # "pending" =>
        LET url == video_source.parses /\ HttpScheme(video_source)
            platform == \E pattern \in {YOUTUBE_COM, YOUTU_BE} :
                           Contains(pattern, LowerSeq(video_source.netloc))
        IN  /\ Route = "Local" <=> ~url
            /\ Route = "PlatformHosted" <=> url /\ platform
            /\ Route = "RemoteFile" <=> url /\ ~platform

\* An ftp source with a host has been classified, as Local.
C12_Witness ==
    /\ video_source = Src("ftp", HostExample, TRUE)
    /\ Route = "Local"

\* extract_frames has returned in this run.
Sampled_Done == pc \notin {"idle", "acquire", "sample", "sample_loop"}

\* The native frame indices of the frames in FRAME_FOLDER.
SavedIndices == { f.idx : f \in frameFiles }

\* The window (start_sec = 2, end_sec = 5) on the ten-second clip at 30
\* frames per second, with the default interval of half a second.
TenSecondExample ==
    /\ video.fps = Rat(30, 1)
    /\ video.nframes = TenSecondClipFrames
    /\ interval_sec = Rat(1, 2)
    /\ start_sec = Rat(2, 1)
    /\ end_sec = Rat(5, 1)

InvalidWindow ==
    /\ end_sec # NoTime
    /\ end_sec.n * Max(start_sec.d, 1) <= Max(start_sec.n, 0) * end_sec.d

\* What sampling without an end saves from video v with start time start:
\* every frame_skip-th frame from the starting index to the last frame the
\* capture can read.
UnboundedSamples(v, start) ==
    LET from == IF start = NoTime \/ start.n < 0 THEN Zero ELSE start
        first == StartFrameIdx(v, from)
        skip == FrameSkip(Fps(v), interval_sec)
        readable == v.nframes - SeekPosition(v, from)
    IN  { first + k * skip : k \in 0..((readable - 1) \div skip) }

\* C14: with an end that is not after the clamped start, extract_frames
\* raises nothing, prints the warning, drops the end, and saves exactly the
\* frames it saves when no end is given.
C14_InvalidWindowIsUnbounded ==
    /\ InvalidWindow /\ pc # "sample" /\ exc # "OSError:makedirs"
         => warned /\ safe_end = NoTime
    /\ (InvalidWindow \/ end_sec = NoTime) /\ Sampled_Done /\ cap = "opened"
         => SavedIndices = UnboundedSamples(video, start_sec)
    /\ ~InvalidWindow => ~warned

\* extract_frames has returned from the window (5, 2) with frames saved.
C14_Witness ==
    /\ start_sec = Rat(5, 1)
    /\ end_sec = Rat(2, 1)
    /\ pc = "openclip"
    /\ warned
    /\ exc = NoError
    /\ frameFiles # {}

UpperSeq(t) == [ i \in 1..Len(t) |-> Upper(t[i]) ]

\* The words of a text, upper-cased: its maximal runs of word characters.
UpperWords(t) ==
    { UpperSeq(SubSeq(t, i, j)) : <<i, j>> \in
        { r \in (1..Len(t)) \X (1..Len(t)) :
            /\ r[1] <= r[2]
            /\ \A k \in r[1]..r[2] : IsWordChar(t[k])
            /\ r[1] = 1 \/ ~IsWordChar(t[r[1] - 1])
            /\ r[2] = Len(t) \/ ~IsWordChar(t[r[2] + 1]) } }

WordsOfText == [ t \in CueTexts |-> UpperWords(t) ]

Vocabulary == { BABY_CRY_CUES[k] : k \in 1..Len(BABY_CRY_CUES) }

\* C15: the cues returned for a transcript hold each vocabulary token once
\* if it occurs in the transcript as a whole word in any letter case and not
\* at all otherwise, hold nothing else, and are the same set for every
\* transcript with the same words, whatever their order, case and number.
C15_CuesAreTheWholeWordTokens ==
    pc = "gather" /\ clip = "audio" =>
        /\ \A k \in 1..Len(baby_cues) : baby_cues[k] \in Vocabulary
        /\ \A cue \in Vocabulary :
             Cardinality({ k \in 1..Len(baby_cues) : baby_cues[k] = cue })
               = (IF cue \in UpperWords(transcript) THEN 1 ELSE 0)
        /\ \A t \in CueTexts :
             WordsOfText[t] = UpperWords(transcript) =>
                 { detect_baby_sounds(t)[k] : k \in 1..Len(detect_baby_sounds(t)) }
                   = { baby_cues[k] : k \in 1..Len(baby_cues) }

\* Cue detection has run on "neh neh HEH" and returned NEH and HEH.
C15_Witness ==
    /\ pc = "gather"
    /\ transcript = <<"n","e","h"," ","n","e","h"," ","H","E","H">>
    /\ baby_cues = << <<"N","E","H">>, <<"H","E","H">> >>

StageOf(p) ==
    CASE p = "idle" -> 0
      [] p \in {"acquire", "yt_download", "gen_download"} -> 1
      [] p \in {"sample", "sample_loop"} -> 2
      [] p \in {"openclip", "render", "tr_primary", "tr_fallback", "tr_finish"} -> 3
      [] p \in {"gather", "infer", "infer_parse", "infer_fallback"} -> 4
      [] p = "cleanup" -> 5
      [] p = "done" -> 6

StageStep ==
    LET from == StageOf(pc)
        to == StageOf(pc')
    IN  \/ from \in {0, 6} /\ to = 1 /\ run' = run + 1
        \/ from \in 1..4 /\ to = from
        \/ from \in 1..3 /\ to = from + 1 /\ exc' = NoError
        \/ from = 4 /\ to = 5
        \/ from \in 2..3 /\ to = 5 /\ exc' # NoError
        \/ from = 5 /\ to = 6
        \/ from = 1 /\ to = 6 /\ exc' # NoError

\* C17: within an invocation the stages run in the order Acquire, Sample,
\* Transcribe, Build-and-Infer, Cleanup: a step stays in its stage, or enters
\* the next stage with no exception pending, or enters Cleanup (from
\* Build-and-Infer, or from Sample or Transcribe with an exception pending),
\* or ends the invocation (after Cleanup, or from Acquire with an exception);
\* so no stage is re-entered, Build-and-Infer is not entered after a failed
\* Transcribe, and every run that got past Acquire ends with Cleanup.
C17_StagesInOrder == [][StageStep]_vars

\* A run has gone through all five stages and ended normally.
C17_Witness ==
    /\ pc = "done"
    /\ result.kind = "ok"
    /\ cap # "unopened"
    /\ trCalls # <<>>
    /\ inferCalls # <<>>
    /\ cleaned # <<>>

\* C18: an invocation that has ended has either printed exactly one
\* assessment and raised nothing, or raised one error and printed no
\* assessment; at no point of an invocation have two assessments been printed.
C18_OneAssessmentOrOneError ==
    /\ Len(printed) <= 1
    /\ pc = "done" =>
         \/ result.kind = "ok" /\ exc = NoError /\ Len(printed) = 1
         \/ result.kind = "error" /\ result.err = exc /\ exc # NoError
              /\ printed = <<>>

\* An invocation has ended with one assessment, taken from the second request
\* after the first one's response could not be read.
C18_Witness ==
    /\ pc = "done"
    /\ result.kind = "ok"
    /\ Len(inferCalls) = 2
    /\ Len(printed) = 1

\* The source of the current invocation is not an http/https URL.
LocalSource == ~(video_source.parses /\ HttpScheme(video_source))

\* C19: for a local source prepare_video_input returns the source string
\* itself as the path and no temp directory, having created no directory and
\* downloaded nothing; a run owns a temp directory only if its source is a
\* URL and a download has returned it.
C19_LocalSourceOwnsNothing ==
    /\ LocalSource /\ pc \notin {"idle", "acquire"} =>
         /\ local_video_path = [kind |-> "local", id |-> 0, source |-> video_source]
         /\ temp_dir = None
         /\ run \notin tempDirs
         /\ TempDir(run) \notin created
         /\ \A f \in videoFiles : f.kind = "local"
         /\ pc = "sample" => created = {}
    /\ temp_dir # None =>
         /\ ~LocalSource
         /\ temp_dir = TempDir(run)
         /\ TempDir(run) \in created
         /\ local_video_path.kind \in {"download", "merged"}

\* prepare_video_input has returned for the source with the scheme ftp.
C19_Witness ==
    /\ pc = "sample"
    /\ video_source.scheme = "ftp"
    /\ local_video_path.kind = "local"
    /\ temp_dir = None

\* C20 as stated: whenever prepare_video_input has returned, for any of the
\* three kinds of source, the returned path names an existing file.
C20_ReturnedPathExists ==
    pc = "sample" => VideoExists(local_video_path)

\* C20, amended: whenever a download has returned (the source is an
\* http/https URL), the returned path names an existing file inside the
\* temp directory returned with it; for a local source the string is
\* returned as the path whether or not a file of that name exists.
C20_DownloadedPathExists ==
    pc = "sample" =>
        IF LocalSource
        THEN local_video_path = [kind |-> "local", id |-> 0, source |-> video_source]
        ELSE /\ local_video_path \in videoFiles
             /\ local_video_path.kind \in {"download", "merged"}
             /\ local_video_path.id = temp_dir.id
             /\ IsDir(temp_dir)

\* The platform download has returned the merged file, the file of the
\* extractor's own name not being there.
C20_Witness ==
    /\ pc = "sample"
    /\ local_video_path = MergedFile(run)
    /\ DownloadedFile(run) \notin videoFiles

\* Paths whose deletion by cleanup_paths failed in the invocation that just
\* ended: the deletion failed and cleanup_paths is what went through the path.
TeardownFailures ==
    { p \in delFailed :
        /\ \E i \in 1..Len(cleaned) : cleaned[i] = p
        /\ p.kind = "tempdir" }

\* C21: every deletion failure during teardown is logged and swallowed:
\* when video_GPT has ended, the caller sees the run's result or the stage
\* error, never a cleanup error, and each path cleanup_paths failed to delete,
\* a directory as well as a file, has a "Failed to remove" line printed.
C21_TeardownFailuresAreLogged ==
    pc = "done" /\ cleaned # <<>> =>
        /\ result = (IF exc = NoError
                     THEN [kind |-> "ok", err |-> NoError]
                     ELSE [kind |-> "error", err |-> exc])
        /\ TeardownFailures \subseteq cleanupLog

\* C22: when invocations of video_GPT run concurrently no scratch resource is
\* shared: the frames an invocation submits to inference are exactly the
\* frames it sampled from its own video, the audio it transcribes is its own
\* rendering, and no other invocation removes its frame directory or audio
\* file under it (it never fails on a missing scratch path).
C22_NoSharedScratch ==
    \A t \in 1..MaxThreads :
        /\ threads[t].heard \in {0, t}
        /\ threads[t].exc = NoError
        /\ threads[t].pc \in {"cleanup", "done"} =>
              { threads[t].submitted[i].b64 :
                    i \in 1..Len(threads[t].submitted) } = threads[t].sampled

\* The images of the requests sent so far in the current invocation.
SubmittedImages ==
    UNION { { inferCalls[c].images[i].b64 :
                  i \in 1..Len(inferCalls[c].images) } :
            c \in 1..Len(inferCalls) }

RateUsed == IF video.fps.n = 0 THEN Rat(30, 1) ELSE video.fps

\* C24 as stated: the stride equals max(1, round(fps * interval_sec)), the
\* product rounded to the nearest integer and never less than 1, with an
\* unavailable or zero frame rate replaced by 30.
C24_StrideIsRounded ==
    cap = "opened" =>
        /\ fps = RateUsed
        /\ frame_skip = Max(1, RoundOfProduct(RateUsed, interval_sec))

\* C24, amended: the stride is the product fps * interval_sec truncated
\* towards zero (the largest integer not above it) and never less than 1,
\* with an unavailable or zero frame rate replaced by 30.
C24_StrideIsTruncated ==
    cap = "opened" =>
        LET n == RateUsed.n * interval_sec.n
            d == RateUsed.d * interval_sec.d
        IN  /\ fps = RateUsed
            /\ frame_skip >= 1
            /\ frame_skip > 1 => frame_skip * d <= n /\ (frame_skip + 1) * d > n
            /\ frame_skip = 1 => n < 2 * d

\* A 29.97 fps clip sampled every half second: the product is 14.985 and the
\* stride is 14.
C24_Witness ==
    /\ cap = "opened"
    /\ video.fps = Rat(2997, 100)
    /\ interval_sec = Rat(1, 2)
    /\ frame_skip = 14

\* C25: for every set of frames the sampler saves, the lexical order of the
\* file names equals the numeric order of the native frame indices, so the
\* frames the orchestrator gathers (sorted by file name) are in ascending
\* native frame index order.
C25_NameOrderIsIndexOrder ==
    /\ \A a \in frameFiles, b \in frameFiles :
          NameLess(FrameName(a.idx), FrameName(b.idx)) <=> a.idx < b.idx
    /\ \A i \in 1..Len(base64frames), j \in 1..Len(base64frames) :
          i < j => base64frames[i].b64.idx < base64frames[j].b64.idx

\* The content list a request carries, whatever its shape.
ContentOf(call) ==
    IF call.shape = "responses"
    THEN call.request.input[1].content
    ELSE call.request.messages[1].content

\* The text segments of a request, in order.
TextsOf(call) ==
    LET c == SelectSeq(ContentOf(call),
                       LAMBDA e : e.type \in {"input_text", "text"})
    IN  [ i \in 1..Len(c) |-> c[i].text ]

\* The images of a request, in order.
ImagesOf(call) ==
    LET c == SelectSeq(ContentOf(call),
                       LAMBDA e : e.type \in {"input_image", "image_url"})
    IN  [ i \in 1..Len(c) |->
            IF call.shape = "responses"
            THEN c[i].image_url.data
            ELSE c[i].image_url.url.data ]

\* The output-token cap of a request.
CapOf(call) ==
    IF call.shape = "responses"
    THEN call.request.max_output_tokens
    ELSE call.request.max_tokens

\* The tokens a comma-separated list names.
RECURSIVE SplitList(_, _)
SplitList(text, word) ==
    IF text = <<>> THEN <<word>>
    ELSE IF Len(text) >= 2 /\ SubSeq(text, 1, 2) = CUES_SEPARATOR
    THEN <<word>> \o SplitList(SubSeq(text, 3, Len(text)), <<>>)
    ELSE SplitList(Tail(text), Append(word, Head(text)))

\* The requests analyze_frames_with_responses has sent agree with its
\* arguments and with each other.
RequestsEquivalent ==
    /\ \A k \in 1..Len(inferCalls) :
          LET call == inferCalls[k]
              texts == TextsOf(call)
          IN  /\ Len(texts) = 3
              /\ texts[1] = PROMPT_VISION
              /\ texts[2] = TRANSCRIPT_PREFIX \o transcript
              /\ IF baby_cues = <<>>
                 THEN texts[3] = NO_CUES_TEXT
                 ELSE /\ SubSeq(texts[3], 1, Len(CUES_PREFIX)) = CUES_PREFIX
                      /\ SplitList(SubSeq(texts[3], Len(CUES_PREFIX) + 1,
                                          Len(texts[3])), <<>>) = baby_cues
              /\ \A i \in 1..Len(ContentOf(call)) :
                    ContentOf(call)[i].type \in
                        (IF i <= 3 THEN {"input_text", "text"}
                         ELSE {"input_image", "image_url"})
              /\ ImagesOf(call) = Prefix(base64frames, MAX_FRAMES)
              /\ CapOf(call) = 300
    /\ \A j \in 1..Len(inferCalls), k \in 1..Len(inferCalls) :
          /\ TextsOf(inferCalls[j]) = TextsOf(inferCalls[k])
          /\ ImagesOf(inferCalls[j]) = ImagesOf(inferCalls[k])
          /\ CapOf(inferCalls[j]) = CapOf(inferCalls[k])

\* C26: the primary and the fallback request are equivalent: when
\* analyze_frames_with_responses has ended, every request it sent, of either
\* shape, carries the three text segments prompt, transcript line, cue
\* summary in that order, then the images base64frames[:MAX_FRAMES] in order,
\* and the cap of 300 output tokens, so the two requests of one invocation
\* agree on all three; the cue summary lists exactly the detected tokens when
\* there are some and says that none were detected otherwise.
C26_RequestShapesEquivalent ==
    pc = "cleanup" /\ inferCalls # <<>> => RequestsEquivalent

\* One invocation has sent both requests, with two detected cues and a frame.
C26_Witness ==
    /\ pc = "cleanup"
    /\ Len(inferCalls) = 2
    /\ inferCalls[1].shape = "responses"
    /\ inferCalls[2].shape = "chat"
    /\ Len(baby_cues) = 2
    /\ base64frames # <<>>

\* The first native index whose timestamp index / fps reaches safe_end
\* (the least integer not below safe_end * fps).
FirstIndexAtEnd ==
    (safe_end.n * fps.n + safe_end.d * fps.d - 1) \div (safe_end.d * fps.d)

\* The frames read so far stay inside the window and inside the video.
ReadsAreBounded ==
    cap = "opened" =>
        /\ cap_pos + frame_idx <= video.nframes
        /\ safe_end # NoTime =>
              /\ frame_idx <= Max(0, FirstIndexAtEnd - start_frame_idx)
              /\ frame_idx >= 1 =>
                    (start_frame_idx + frame_idx - 1) * fps.d * safe_end.d
                        < safe_end.n * fps.n

\* C27: the sampling loop terminates for every video with finitely many
\* frames; with a bounded end it reads at most the native frames from the
\* starting index up to the first index whose timestamp reaches the end,
\* even when more frames remain, and none whose timestamp is at or past it.
C27_LoopTerminatesWithinWindow ==
    /\ []ReadsAreBounded
    /\ (pc = "sample_loop") ~> (pc # "sample_loop")

\* The loop has ended at the window's end with frames left in the video.
C27_Witness ==
    /\ pc = "openclip"
    /\ cap = "opened"
    /\ safe_end # NoTime
    /\ frame_idx = FirstIndexAtEnd - start_frame_idx
    /\ frame_idx > 0
    /\ cap_pos + frame_idx < video.nframes

\* The loop counters at which a frame has been saved so far.
SavedCounters == { i \in 0..(frame_idx - 1) : i % frame_skip = 0 }

\* C28: on a video that opens, the first frame read is saved and
\* consecutive saved frames are exactly frame_skip native indices apart: the
\* saved frames are those at start_frame_idx + k * frame_skip among the
\* frames read, so one readable frame in the window gives at least one
\* saved frame, and saved index minus starting index is a multiple of
\* frame_skip.
C28_SavedFramesOnStride ==
    cap = "opened" =>
        /\ frame_skip >= 1
        /\ frame_idx >= 1 => FrameFile(start_frame_idx, run) \in frameFiles
        /\ \A f \in frameFiles :
              /\ f.idx >= start_frame_idx
              /\ (f.idx - start_frame_idx) % frame_skip = 0
              /\ f.idx > start_frame_idx =>
                    FrameFile(f.idx - frame_skip, run) \in frameFiles
        /\ frameFiles = { FrameFile(start_frame_idx + i, run) : i \in SavedCounters }

\* A window of ninety frames read with stride 15 has given six saved frames.
C28_Witness ==
    /\ pc = "openclip"
    /\ cap = "opened"
    /\ frame_skip = 15
    /\ frame_idx = 90
    /\ Cardinality(frameFiles) = 6

\* A step of the current invocation leaves the file of a local source in place.
LocalSourceKept ==
    (/\ run' = run
     /\ ~is_url(video_source)
     /\ LocalFile(video_source) \in videoFiles)
        => LocalFile(video_source) \in videoFiles'

\* What cleanup_paths has gone through is the temp directory, if one was
\* created, and the frame directory.
CleanupOnlyScratch ==
    \A i \in 1..Len(cleaned) :
        \/ cleaned[i] = FRAME_FOLDER
        \/ cleaned[i] = temp_dir /\ temp_dir.kind = "tempdir"

\* C29: for a local source (a path outside the frame directory and other
\* than the scratch audio path) no step of video_GPT deletes or overwrites
\* the file at that path, on the success path and on every failure path:
\* cleanup goes through the acquisition temp directory, when one was
\* created, and the frame directory only.
C29_LocalSourceUntouched ==
    /\ [][LocalSourceKept]_vars
    /\ []CleanupOnlyScratch

\* An invocation on an existing local file has failed and been cleaned up,
\* and the file is still there.
C29_Witness ==
    /\ pc = "done"
    /\ exc # NoError
    /\ cleaned = <<FRAME_FOLDER>>
    /\ ~is_url(video_source)
    /\ LocalFile(video_source) \in videoFiles

\* The temporary files created for the upload of the current request.
UploadCopies == { f \in tmpFiles : f.id = requests }

\* C30: for every POST that uploads a file, the temporary copy created for
\* the upload no longer exists when the response is rendered, on every exit
\* path (analysis returned, analysis raised, saving the upload raised); an
\* exception from the pipeline becomes an error message on the page and does
\* not leave the handler; and the pipeline is invoked only when exactly one
\* of uploaded file and URL is provided.
C30_UploadCopyGoneAtRender ==
    /\ wpc = "render" => UploadCopies = {}
    /\ wpc = "finally" /\ invoked # <<>> /\ analysis_output = NoMessage
          => error = MSG_FAILED \o "video_GPT"
    /\ invoked # <<>> =>
          /\ Len(invoked) = 1
          /\ request.method = "POST"
          /\ HasUpload(request) # (VideoUrl(request) # <<>>)
====
